--------------------------- MODULE ScheduleContract ---------------------------
(***************************************************************************)
(* What the scheduler promises for each schedule: a packet is delivered    *)
(* once, or again and again if it recurs; never before its date, and never *)
(* sooner after the last time than its interval; and not any more once     *)
(* cancel() has found it.                                                  *)
(***************************************************************************)
EXTENDS Naturals

CONSTANTS
  Schedules,
  Recurring,   \* those that are delivered again and again
  Interval,    \* the least time between two deliveries of one that recurs
  Dates        \* the dates a schedule may be given

VARIABLES
  now,
  stage,       \* of each schedule: "none", "waiting", "cancelled" or "done"
  earliest     \* when it may be delivered next

Init ==
  /\ now = 0
  /\ stage = [i \in Schedules |-> "none"]
  /\ earliest = [i \in Schedules |-> 0]

Create(i, date) ==
  /\ stage[i] = "none"
  /\ stage' = [stage EXCEPT ![i] = "waiting"]
  /\ earliest' = [earliest EXCEPT ![i] = date]
  /\ UNCHANGED now

Deliver(i) ==
  /\ stage[i] = "waiting"
  /\ now >= earliest[i]
  /\ IF i \in Recurring
     THEN earliest' = [earliest EXCEPT ![i] = now + Interval[i]] /\ UNCHANGED stage
     ELSE stage' = [stage EXCEPT ![i] = "done"] /\ UNCHANGED earliest
  /\ UNCHANGED now

Cancel(i) ==
  /\ stage[i] = "waiting"
  /\ stage' = [stage EXCEPT ![i] = "cancelled"]
  /\ UNCHANGED <<now, earliest>>

Tick == now' = now + 1 /\ UNCHANGED <<stage, earliest>>

Next == Tick \/ \E i \in Schedules : Deliver(i) \/ Cancel(i) \/ \E date \in Dates : Create(i, date)

Spec == Init /\ [][Next]_<<now, stage, earliest>>
=============================================================================
