------------------------------ MODULE Scheduler ------------------------------
(***************************************************************************)
(* PacketScheduler of src/core/scheduler.ts on the timers of Node.js.      *)
(*                                                                         *)
(* A timer callback removes its schedule from the pending map, dispatches  *)
(* the packet, which runs the synchronous part of the handler, and only    *)
(* then arms a recurring schedule again.  The handler may call the         *)
(* scheduler in between; nothing else can.                                 *)
(***************************************************************************)
EXTENDS Naturals

CONSTANTS
  Schedules,   \* the schedule ids that will be handed out
  Recurring,   \* those made by scheduleRecurring
  Interval,    \* intervalMs of a recurring schedule
  TimeoutMax,  \* the longest delay setTimeout takes (2^31 - 1 ms)
  MaxTime,     \* bound: the clock stops here
  Nobody       \* no callback is running

ASSUME SchedulerAssumption ==
  /\ Recurring \subseteq Schedules
  /\ Interval \in [Recurring -> Nat]
  /\ TimeoutMax \in Nat \ {0}
  /\ MaxTime \in Nat
  /\ Nobody \notin Schedules

VARIABLES
  now,         \* Date.now()
  created,     \* the ids handed out
  pending,     \* the pending map's ids
  deliverAt,   \* the date each pending entry says it will be delivered
  due,         \* when its timer fires
  running,     \* the schedule whose timer callback is in dispatch()
  delivered,   \* number of deliveries of each schedule
  lastAt,      \* when the latest was
  cancelled,   \* ids for which cancel() has answered true
  asked        \* ids for which cancel() has been called since they were created

vars == <<now, created, pending, deliverAt, due, running, delivered, lastAt, cancelled, asked>>

TypeOK ==
  /\ now \in 0..MaxTime
  /\ created \subseteq Schedules
  /\ pending \subseteq Schedules
  /\ deliverAt \in [Schedules -> Nat]
  /\ due \in [Schedules -> Nat]
  /\ running \in Schedules \cup {Nobody}
  /\ delivered \in [Schedules -> Nat]
  /\ lastAt \in [Schedules -> Nat]
  /\ cancelled \subseteq Schedules
  /\ asked \subseteq Schedules

Init ==
  /\ now = 0
  /\ created = {}
  /\ pending = {}
  /\ deliverAt = [i \in Schedules |-> 0]
  /\ due = [i \in Schedules |-> 0]
  /\ running = Nobody
  /\ delivered = [i \in Schedules |-> 0]
  /\ lastAt = [i \in Schedules |-> 0]
  /\ cancelled = {}
  /\ asked = {}

-----------------------------------------------------------------------------
\* setTimeout(): a delay below 1 or above TimeoutMax becomes 1 millisecond.
TimerDelay(d) == IF d < 1 \/ d > TimeoutMax THEN 1 ELSE d

\* arm(): the entry for date `at` waits in the map until its timer fires.  The
\* code takes the timer's hold off the process (timer.unref); that something
\* else keeps the process alive is assumed.
Arm(i, at, delay) ==
  /\ pending' = pending \cup {i}
  /\ deliverAt' = [deliverAt EXCEPT ![i] = at]
  /\ due' = [due EXCEPT ![i] = now + TimerDelay(delay)]

\* schedule() and scheduleRecurring(), by anyone at any time.  A date in the
\* past is delivered as soon as possible.
Schedule(i, at) ==
  /\ i \notin created
  /\ created' = created \cup {i}
  /\ Arm(i, at, IF at > now THEN at - now ELSE 0)
  /\ UNCHANGED <<now, running, delivered, lastAt, cancelled, asked>>

\* cancel(): the entry must be in the map.
Cancel(i) ==
  /\ i \in created
  /\ asked' = asked \cup {i}
  /\ pending' = pending \ {i}
  /\ cancelled' = IF i \in pending THEN cancelled \cup {i} ELSE cancelled
  /\ UNCHANGED <<now, created, deliverAt, due, running, delivered, lastAt>>

\* Mutant: the entry leaves the map after the dispatch.
FireDeletesLate(i) ==
  /\ running = Nobody
  /\ i \in pending
  /\ now >= due[i]
  /\ running' = i
  /\ delivered' = [delivered EXCEPT ![i] = @ + 1]
  /\ lastAt' = [lastAt EXCEPT ![i] = now]
  /\ UNCHANGED <<now, created, pending, deliverAt, due, cancelled, asked>>

\* Mutant: the timer callback does not wait for its timer.
FireEarly(i) ==
  /\ running = Nobody
  /\ i \in pending
  /\ running' = i
  /\ pending' = pending \ {i}
  /\ delivered' = [delivered EXCEPT ![i] = @ + 1]
  /\ lastAt' = [lastAt EXCEPT ![i] = now]
  /\ UNCHANGED <<now, created, deliverAt, due, cancelled, asked>>

\* Mutant: a timer that is served late is dropped.
FireOnTheDot(i) ==
  /\ running = Nobody
  /\ i \in pending
  /\ now = due[i]
  /\ running' = i
  /\ pending' = pending \ {i}
  /\ delivered' = [delivered EXCEPT ![i] = @ + 1]
  /\ lastAt' = [lastAt EXCEPT ![i] = now]
  /\ UNCHANGED <<now, created, deliverAt, due, cancelled, asked>>

\* The timer callback up to and including dispatch(packet).
Fire(i) ==
  /\ running = Nobody
  /\ i \in pending
  /\ now >= due[i]
  /\ running' = i
  /\ pending' = pending \ {i}
  /\ delivered' = [delivered EXCEPT ![i] = @ + 1]
  /\ lastAt' = [lastAt EXCEPT ![i] = now]
  /\ UNCHANGED <<now, created, deliverAt, due, cancelled, asked>>

\* Mutant: a recurring schedule is armed again at the date it missed.
FinishCatchesUp ==
  /\ running # Nobody
  /\ running' = Nobody
  /\ IF running \in Recurring
     THEN Arm(running, deliverAt[running] + Interval[running], 0)
     ELSE UNCHANGED <<pending, deliverAt, due>>
  /\ UNCHANGED <<now, created, delivered, lastAt, cancelled, asked>>

\* Mutant: one-shot schedules are armed again as well.
FinishAlwaysArms ==
  /\ running # Nobody
  /\ running' = Nobody
  /\ Arm(running, now + 1, 1)
  /\ UNCHANGED <<now, created, delivered, lastAt, cancelled, asked>>

\* Mutant: the timer of a recurring schedule is never armed again.
FinishForgets ==
  /\ running # Nobody
  /\ running' = Nobody
  /\ UNCHANGED <<now, created, pending, deliverAt, due, delivered, lastAt, cancelled, asked>>

\* The rest of the callback, when dispatch() has returned.
Finish ==
  /\ running # Nobody
  /\ running' = Nobody
  /\ IF running \in Recurring
     THEN Arm(running, now + Interval[running], Interval[running])
     ELSE UNCHANGED <<pending, deliverAt, due>>
  /\ UNCHANGED <<now, created, delivered, lastAt, cancelled, asked>>

\* Time passes, also while a callback runs.
Tick ==
  /\ now < MaxTime
  /\ now' = now + 1
  /\ UNCHANGED <<created, pending, deliverAt, due, running, delivered, lastAt, cancelled, asked>>

Next ==
  \/ \E i \in Schedules : (\E at \in 0..MaxTime : Schedule(i, at)) \/ Cancel(i) \/ Fire(i)
  \/ Finish
  \/ Tick

Spec == Init /\ [][Next]_vars

\* The clock runs, and the event loop serves the timers that are due.
FairSpec == Spec /\ WF_vars(Tick) /\ WF_vars(Finish) /\ \A i \in Schedules : WF_vars(Fire(i))

-----------------------------------------------------------------------------
(***************************************************************************)
(* Properties                                                              *)
(***************************************************************************)

\* What a schedule still owes: every delivery if it recurs, else its only one.
Owes(i) == i \in created \ cancelled /\ (i \in Recurring \/ delivered[i] = 0)

\* listPending() lists exactly the schedules that still owe a delivery, except
\* the one whose callback is running: none is lost and none lingers, whatever
\* the handlers schedule and cancel from inside the callbacks.
PendingIsOwed == pending = {i \in created : Owes(i) /\ running # i}

\* No delay exceeds what setTimeout takes.
NoOverflow == MaxTime <= TimeoutMax /\ \A i \in Recurring : Interval[i] <= TimeoutMax

\* The inductive invariant: the schedule whose callback runs has not been
\* cancelled, and no timer is set before its entry's date.
Inv ==
  /\ TypeOK
  /\ PendingIsOwed
  /\ cancelled \subseteq created
  /\ \A i \in Schedules \ created : delivered[i] = 0
  /\ running # Nobody => running \in created \ cancelled /\ delivered[running] > 0
  /\ NoOverflow => \A i \in pending : deliverAt[i] <= due[i]

\* A packet is not delivered before its date (while no delay overflows).
NotEarly ==
  [][\A i \in Schedules : delivered'[i] # delivered[i] => now >= deliverAt[i]]_vars

\* Deliveries of a recurring schedule are at least its interval apart: late
\* timers are not made up for.
KeepsInterval ==
  [][\A i \in Recurring :
       delivered'[i] # delivered[i] /\ delivered[i] > 0 => now >= lastAt[i] + Interval[i]]_vars

\* Once cancel() has answered true the schedule is never delivered again.
CancelIsFinal ==
  [][\A i \in cancelled : delivered'[i] = delivered[i]]_vars

Stage ==
  [i \in Schedules |->
     CASE i \notin created -> "none"
       [] i \in cancelled  -> "cancelled"
       [] Owes(i)          -> "waiting"
       [] OTHER            -> "done"]

Earliest ==
  [i \in Schedules |->
     IF i \in Recurring /\ delivered[i] > 0 THEN lastAt[i] + Interval[i] ELSE deliverAt[i]]

Contract == INSTANCE ScheduleContract WITH
  Dates <- 0..MaxTime, stage <- Stage, earliest <- Earliest

\* The scheduler keeps ScheduleContract (while no delay overflows): whatever is
\* scheduled and cancelled, also from inside the callbacks, and however late
\* timers are and slow handlers, a packet comes when it may, a cancelled one
\* not at all and one that does not recur once.
KeepsScheduleContract == Contract!Spec

\* What is scheduled within the clock's bound is delivered or cancelled.
EventuallyDelivered ==
  \A i \in Schedules :
    i \in created /\ delivered[i] = 0 /\ due[i] <= MaxTime ~> delivered[i] > 0 \/ i \in cancelled

\* runtime.ts:567, on the scheduleId that scheduleRecurring() returns: "pass to
\* cancelScheduled() to stop".
CancelStops ==
  [][\A i \in asked : delivered'[i] = delivered[i]]_vars
=============================================================================
