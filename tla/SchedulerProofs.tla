--------------------------- MODULE SchedulerProofs ---------------------------
(***************************************************************************)
(* Theorems about Scheduler, for any set of schedules and intervals.       *)
(***************************************************************************)
EXTENDS Scheduler, TLAPS

LEMMA ArmTypes ==
  ASSUME TypeOK, NEW i \in Schedules, NEW at \in Nat, NEW d \in Nat, Arm(i, at, d)
  PROVE  /\ pending' \in SUBSET Schedules
         /\ deliverAt' \in [Schedules -> Nat]
         /\ due' \in [Schedules -> Nat]
  BY DEF TypeOK, Arm, TimerDelay

LEMMA InvStep == Inv /\ [Next]_vars => Inv'
<1> SUFFICES ASSUME Inv, [Next]_vars PROVE Inv'
  OBVIOUS
<1> USE SchedulerAssumption
<1>1. ASSUME NEW i \in Schedules, NEW at \in 0..MaxTime, Schedule(i, at) PROVE Inv'
  <2> DEFINE d == IF at > now THEN at - now ELSE 0
  <2>1. d \in Nat /\ at \in Nat /\ now \in Nat
    BY DEF Inv, TypeOK
  <2>2. Arm(i, at, d)
    BY <1>1 DEF Schedule
  <2>3. TypeOK'
    BY <1>1, <2>1, <2>2, ArmTypes DEF Schedule, Inv, TypeOK
  <2>4. PendingIsOwed'
    BY <1>1, <2>2 DEF Schedule, Arm, Inv, PendingIsOwed, Owes
  <2>5. NoOverflow => \A k \in pending' : deliverAt'[k] <= due'[k]
    <3> SUFFICES ASSUME NoOverflow, NEW k \in pending' PROVE deliverAt'[k] <= due'[k]
      OBVIOUS
    <3>1. CASE k = i
      <4>1. deliverAt'[k] = at /\ due'[k] = now + TimerDelay(d)
        BY <2>2, <3>1 DEF Arm, Inv, TypeOK
      <4>2. QED
        BY <2>1, <4>1 DEF TimerDelay, NoOverflow
    <3>2. CASE k # i
      BY <2>2, <3>2 DEF Arm, Inv, TypeOK
    <3>3. QED
      BY <3>1, <3>2
  <2>6. QED
    BY <1>1, <2>3, <2>4, <2>5 DEF Schedule, Inv, NoOverflow
<1>2. ASSUME NEW i \in Schedules, Cancel(i) PROVE Inv'
  BY <1>2 DEF Cancel, Inv, TypeOK, PendingIsOwed, Owes, NoOverflow
<1>3. ASSUME NEW i \in Schedules, Fire(i) PROVE Inv'
  BY <1>3 DEF Fire, Inv, TypeOK, PendingIsOwed, Owes, NoOverflow
<1>4. ASSUME Finish PROVE Inv'
  <2>1. running \in Schedules /\ running \in created \ cancelled /\ delivered[running] > 0
    BY <1>4 DEF Finish, Inv, TypeOK
  <2>2. CASE running \in Recurring
    <3>1. /\ Arm(running, now + Interval[running], Interval[running])
          /\ Interval[running] \in Nat /\ now \in Nat
      BY <1>4, <2>2 DEF Finish, Inv, TypeOK
    <3>2. TypeOK'
      BY <1>4, <2>1, <3>1, ArmTypes DEF Finish, Inv, TypeOK
    <3>3. PendingIsOwed'
      <4>1. /\ pending' = pending \cup {running} /\ running' = Nobody
            /\ UNCHANGED <<created, cancelled, delivered>>
        BY <1>4, <3>1 DEF Finish, Arm
      <4>2. pending = {i \in created : Owes(i) /\ running # i} /\ created \subseteq Schedules
        BY DEF Inv, PendingIsOwed, TypeOK
      <4>3. \A i \in created : Owes(i)' <=> Owes(i)
        BY <4>1 DEF Owes
      <4>4. Owes(running)
        BY <2>1, <2>2 DEF Owes
      <4>5. QED
        BY <2>1, <4>1, <4>2, <4>3, <4>4 DEF PendingIsOwed
    <3>4. NoOverflow => \A k \in pending' : deliverAt'[k] <= due'[k]
      BY <2>1, <2>2, <3>1 DEF Arm, TimerDelay, NoOverflow, Inv, TypeOK
    <3>5. QED
      BY <1>4, <3>2, <3>3, <3>4 DEF Finish, Inv, NoOverflow
  <2>3. CASE running \notin Recurring
    BY <1>4, <2>1, <2>3 DEF Finish, Inv, TypeOK, PendingIsOwed, Owes, NoOverflow
  <2>4. QED
    BY <2>2, <2>3
<1>5. ASSUME Tick PROVE Inv'
  BY <1>5 DEF Tick, Inv, TypeOK, PendingIsOwed, Owes, NoOverflow
<1>6. CASE UNCHANGED vars
  BY <1>6 DEF vars, Inv, TypeOK, PendingIsOwed, Owes, NoOverflow
<1>7. QED
  BY <1>1, <1>2, <1>3, <1>4, <1>5, <1>6 DEF Next

\* The pending map, the running callback and the timers hang together as Inv
\* says, whatever handlers do from inside the callbacks.
THEOREM Invariance == Spec => []Inv
<1>1. Init => Inv
  BY SchedulerAssumption DEF Init, Inv, TypeOK, PendingIsOwed, Owes
<1>2. QED
  BY <1>1, InvStep, PTL DEF Spec

\* The pending map holds exactly the schedules that still owe a delivery.
THEOREM NoneLostNoneLingers == Spec => []PendingIsOwed
<1>1. Inv => PendingIsOwed
  BY DEF Inv
<1>2. QED
  BY <1>1, Invariance, PTL

\* A schedule that cancel() found is not delivered again.
THEOREM CancelledStays == Spec => CancelIsFinal
<1>1. Inv /\ [Next]_vars => [\A i \in cancelled : delivered'[i] = delivered[i]]_vars
  <2> SUFFICES ASSUME Inv, Next, NEW i \in cancelled PROVE delivered'[i] = delivered[i]
    OBVIOUS
  <2>1. i \in Schedules /\ i \notin pending
    BY DEF Inv, TypeOK, PendingIsOwed, Owes
  <2>2. QED
    BY <2>1 DEF Next, Schedule, Cancel, Fire, Finish, Tick, Inv, TypeOK
<1>2. QED
  BY <1>1, Invariance, PTL DEF Spec, CancelIsFinal

\* No packet is early when no delay overflows.
THEOREM DatesAreKept == ASSUME NoOverflow PROVE Spec => NotEarly
<1>1. Inv /\ [Next]_vars
        => [\A i \in Schedules : delivered'[i] # delivered[i] => now >= deliverAt[i]]_vars
  <2> SUFFICES ASSUME Inv, Next, NEW i \in Schedules, delivered'[i] # delivered[i]
               PROVE  now >= deliverAt[i]
    OBVIOUS
  <2>1. Fire(i)
    BY DEF Next, Schedule, Cancel, Fire, Finish, Tick, Inv, TypeOK
  <2>2. QED
    BY <2>1 DEF Fire, Inv, TypeOK
<1>2. QED
  BY <1>1, Invariance, PTL DEF Spec, NotEarly

-----------------------------------------------------------------------------
\* A delivery is never in the future, and the timer of a recurring schedule
\* is set an interval or more after the last one.
Spacing ==
  \A i \in Recurring :
    /\ lastAt[i] <= now
    /\ i \in pending /\ delivered[i] > 0 => due[i] >= lastAt[i] + Interval[i]

LEMMA SpacingInit == Init => Spacing
<1> SUFFICES ASSUME Init, NEW i \in Recurring PROVE lastAt[i] = 0 /\ now = 0 /\ i \notin pending
  BY DEF Spacing
<1> QED
  BY SchedulerAssumption DEF Init

LEMMA SpacingStep == ASSUME NoOverflow PROVE Inv /\ Spacing /\ [Next]_vars => Spacing'
<1> SUFFICES ASSUME Inv, Spacing, [Next]_vars, NEW k \in Recurring
             PROVE  /\ lastAt'[k] <= now'
                    /\ k \in pending' /\ delivered'[k] > 0 => due'[k] >= lastAt'[k] + Interval[k]
  BY DEF Spacing
<1> USE SchedulerAssumption
<1>1. ASSUME NEW i \in Schedules, NEW at \in 0..MaxTime, Schedule(i, at)
      PROVE  /\ UNCHANGED <<now, lastAt, delivered>>
             /\ k = i => delivered[k] = 0
             /\ k # i => (k \in pending' <=> k \in pending) /\ due'[k] = due[k]
  BY <1>1 DEF Schedule, Arm, Inv, TypeOK
<1>2. ASSUME NEW i \in Schedules, Cancel(i)
      PROVE  UNCHANGED <<now, lastAt, delivered, due>> /\ pending' \subseteq pending
  BY <1>2 DEF Cancel
<1>3. ASSUME NEW i \in Schedules, Fire(i)
      PROVE  /\ UNCHANGED <<now, due>> /\ pending' = pending \ {i}
             /\ k = i => lastAt'[k] = now
             /\ k # i => lastAt'[k] = lastAt[k] /\ delivered'[k] = delivered[k]
  BY <1>3 DEF Fire, Inv, TypeOK
<1>4. ASSUME Finish
      PROVE  /\ UNCHANGED <<now, lastAt, delivered>>
             /\ \/ (k \in pending' <=> k \in pending) /\ due'[k] = due[k]
                \/ due'[k] >= now + Interval[k]
  BY <1>4 DEF Finish, Arm, TimerDelay, NoOverflow, Inv, TypeOK
<1>5. CASE Tick
  BY <1>5 DEF Tick, Spacing, Inv, TypeOK
<1>6. CASE UNCHANGED vars
  BY <1>6 DEF vars, Spacing
<1>7. /\ now \in Nat /\ lastAt[k] \in Nat /\ Interval[k] \in Nat /\ due[k] \in Nat
      /\ due'[k] \in Nat /\ k \in Schedules /\ delivered[k] \in Nat
  BY InvStep DEF Inv, TypeOK
<1>8. CASE Finish
  BY <1>4, <1>7, <1>8 DEF Spacing
<1>9. CASE \E i \in Schedules : (\E at \in 0..MaxTime : Schedule(i, at)) \/ Cancel(i) \/ Fire(i)
  BY <1>1, <1>2, <1>3, <1>7, <1>9 DEF Spacing
<1>10. QED
  BY <1>5, <1>6, <1>8, <1>9 DEF Next

\* Deliveries of a recurring schedule are at least its interval apart, however
\* late its timer and however slow its handler, when no delay overflows.
THEOREM IntervalsAreKept == ASSUME NoOverflow PROVE Spec => KeepsInterval
<1>2. Inv /\ Spacing /\ [Next]_vars
        => [\A i \in Recurring :
              delivered'[i] # delivered[i] /\ delivered[i] > 0 => now >= lastAt[i] + Interval[i]]_vars
  <2> SUFFICES ASSUME Inv, Spacing, Next, NEW i \in Recurring,
                      delivered'[i] # delivered[i], delivered[i] > 0
               PROVE  now >= lastAt[i] + Interval[i]
    OBVIOUS
  <2>1. i \in Schedules
    BY SchedulerAssumption
  <2>2. Fire(i)
    BY <2>1 DEF Next, Schedule, Cancel, Fire, Finish, Tick, Inv, TypeOK
  <2>3. now \in Nat /\ due[i] \in Nat /\ lastAt[i] \in Nat /\ Interval[i] \in Nat
    BY <2>1, SchedulerAssumption DEF Inv, TypeOK
  <2>4. now >= due[i] /\ due[i] >= lastAt[i] + Interval[i]
    BY <2>2 DEF Fire, Spacing
  <2>5. QED
    BY <2>3, <2>4
<1>3. QED
  BY <1>2, SpacingInit, SpacingStep, Invariance, PTL DEF Spec, KeepsInterval
-----------------------------------------------------------------------------
(***************************************************************************)
(* The refinement of ScheduleContract.                                     *)
(***************************************************************************)

\* Stage and Earliest of a schedule change only with what they are made of.
LEMMA SameStage ==
  ASSUME NEW i \in Schedules,
         i \in created <=> i \in created', i \in cancelled <=> i \in cancelled',
         delivered'[i] = delivered[i] \/ (i \in Recurring /\ i \in created \ cancelled)
  PROVE  Stage'[i] = Stage[i]
BY DEF Stage, Owes

LEMMA SameEarliest ==
  ASSUME NEW i \in Schedules, delivered'[i] = delivered[i], lastAt'[i] = lastAt[i],
         deliverAt'[i] = deliverAt[i] \/ (i \in Recurring /\ delivered[i] > 0)
  PROVE  Earliest'[i] = Earliest[i]
BY DEF Earliest

\* Two of the tables are equal if they are at every schedule.
LEMMA TableUpdate ==
  ASSUME NEW i \in Schedules, NEW f, NEW g, NEW v,
         DOMAIN f = Schedules, f = [k \in Schedules |-> f[k]],
         DOMAIN g = Schedules, g = [k \in Schedules |-> g[k]],
         g[i] = v, \A k \in Schedules \ {i} : g[k] = f[k]
  PROVE  g = [f EXCEPT ![i] = v]
OBVIOUS

LEMMA Tables ==
  /\ DOMAIN Stage = Schedules /\ Stage = [k \in Schedules |-> Stage[k]]
  /\ DOMAIN Earliest = Schedules /\ Earliest = [k \in Schedules |-> Earliest[k]]
  /\ DOMAIN Stage' = Schedules /\ Stage' = [k \in Schedules |-> Stage'[k]]
  /\ DOMAIN Earliest' = Schedules /\ Earliest' = [k \in Schedules |-> Earliest'[k]]
BY DEF Stage, Earliest

LEMMA ScheduleCreates ==
  ASSUME Inv, NEW i \in Schedules, NEW at \in 0..MaxTime, Schedule(i, at)
  PROVE  Contract!Create(i, at)
<1>1. /\ i \notin created /\ i \notin cancelled /\ delivered[i] = 0
      /\ created' = created \cup {i}
      /\ deliverAt' = [deliverAt EXCEPT ![i] = at]
      /\ deliverAt \in [Schedules -> Nat]
      /\ UNCHANGED <<now, delivered, lastAt, cancelled>>
  BY DEF Schedule, Arm, Inv, TypeOK
<1>2. Stage[i] = "none" /\ Stage'[i] = "waiting" /\ Earliest'[i] = at
  BY <1>1 DEF Stage, Owes, Earliest
<1>3. \A k \in Schedules \ {i} : Stage'[k] = Stage[k]
  BY <1>1, SameStage
<1>4. \A k \in Schedules \ {i} : Earliest'[k] = Earliest[k]
  BY <1>1, SameEarliest
<1>5. Stage' = [Stage EXCEPT ![i] = "waiting"]
  BY <1>2, <1>3, Tables, TableUpdate
<1>6. Earliest' = [Earliest EXCEPT ![i] = at]
  BY <1>2, <1>4, Tables, TableUpdate
<1> QED
  BY <1>1, <1>2, <1>5, <1>6 DEF Contract!Create

LEMMA FireDelivers ==
  ASSUME NoOverflow, Inv, Spacing, NEW i \in Schedules, Fire(i)
  PROVE  Contract!Deliver(i)
<1>1. /\ i \in pending /\ i \in created /\ i \notin cancelled /\ Owes(i)
      /\ now >= due[i] /\ deliverAt[i] <= due[i]
      /\ now \in Nat /\ due[i] \in Nat /\ deliverAt[i] \in Nat /\ lastAt[i] \in Nat
      /\ delivered[i] \in Nat
      /\ delivered'[i] = delivered[i] + 1 /\ lastAt'[i] = now
      /\ \A k \in Schedules \ {i} : delivered'[k] = delivered[k] /\ lastAt'[k] = lastAt[k]
      /\ UNCHANGED <<now, created, deliverAt, cancelled>>
  BY DEF Fire, Inv, TypeOK, PendingIsOwed, Owes
<1>2. Stage[i] = "waiting"
  BY <1>1 DEF Stage
<1>3. now >= Earliest[i]
  <2>1. CASE i \in Recurring /\ delivered[i] > 0
    <3>1. Interval[i] \in Nat /\ due[i] >= lastAt[i] + Interval[i]
      BY <1>1, <2>1, SchedulerAssumption DEF Spacing
    <3> QED
      BY <1>1, <2>1, <3>1 DEF Earliest
  <2>2. CASE ~(i \in Recurring /\ delivered[i] > 0)
    BY <1>1, <2>2 DEF Earliest
  <2> QED
    BY <2>1, <2>2
<1>4. \A k \in Schedules \ {i} : Stage'[k] = Stage[k]
  BY <1>1, SameStage
<1>5. \A k \in Schedules \ {i} : Earliest'[k] = Earliest[k]
  BY <1>1, SameEarliest
<1>6. CASE i \in Recurring
  <2>1. Stage'[i] = Stage[i]
    BY <1>1, <1>6, SameStage
  <2>2. Stage' = Stage
    BY <1>4, <2>1, Tables
  <2>3. Earliest'[i] = now + Interval[i]
    BY <1>1, <1>6 DEF Earliest
  <2>4. Earliest' = [Earliest EXCEPT ![i] = now + Interval[i]]
    BY <1>5, <2>3, Tables, TableUpdate
  <2> QED
    BY <1>1, <1>2, <1>3, <1>6, <2>2, <2>4 DEF Contract!Deliver
<1>7. CASE i \notin Recurring
  <2>1. Stage'[i] = "done"
    BY <1>1, <1>7 DEF Stage, Owes
  <2>2. Stage' = [Stage EXCEPT ![i] = "done"]
    BY <1>4, <2>1, Tables, TableUpdate
  <2>3. Earliest'[i] = Earliest[i]
    BY <1>1, <1>7 DEF Earliest
  <2>4. Earliest' = Earliest
    BY <1>5, <2>3, Tables
  <2> QED
    BY <1>1, <1>2, <1>3, <1>7, <2>2, <2>4 DEF Contract!Deliver
<1> QED
  BY <1>6, <1>7

LEMMA CancelCancels ==
  ASSUME Inv, NEW i \in Schedules, Cancel(i)
  PROVE  Contract!Cancel(i) \/ UNCHANGED <<now, Stage, Earliest>>
<1>1. UNCHANGED <<now, created, deliverAt, delivered, lastAt>>
  BY DEF Cancel
<1>2. Earliest' = Earliest
  BY <1>1 DEF Earliest
<1>3. CASE i \in pending
  <2>1. Owes(i) /\ i \in created /\ i \notin cancelled /\ cancelled' = cancelled \cup {i}
    BY <1>3 DEF Cancel, Inv, PendingIsOwed, Owes
  <2>2. Stage[i] = "waiting" /\ Stage'[i] = "cancelled"
    BY <1>1, <2>1 DEF Stage, Owes
  <2>3. \A k \in Schedules \ {i} : Stage'[k] = Stage[k]
    BY <1>1, <2>1, SameStage
  <2>4. Stage' = [Stage EXCEPT ![i] = "cancelled"]
    BY <2>2, <2>3, Tables, TableUpdate
  <2> QED
    BY <1>1, <1>2, <2>2, <2>4 DEF Contract!Cancel
<1>4. CASE i \notin pending
  <2>1. \A k \in Schedules : Stage'[k] = Stage[k]
    BY <1>1, <1>4, SameStage DEF Cancel
  <2>2. Stage' = Stage
    BY <2>1, Tables
  <2> QED
    BY <1>1, <1>2, <2>2
<1> QED
  BY <1>3, <1>4

LEMMA ContractStep ==
  ASSUME NoOverflow, Inv, Spacing, [Next]_vars
  PROVE  [Contract!Next]_<<now, Stage, Earliest>>
<1>1. ASSUME NEW i \in Schedules, NEW at \in 0..MaxTime, Schedule(i, at)
      PROVE  Contract!Next
  BY <1>1, ScheduleCreates DEF Contract!Next
<1>2. ASSUME NEW i \in Schedules, Cancel(i)
      PROVE  [Contract!Next]_<<now, Stage, Earliest>>
  BY <1>2, CancelCancels DEF Contract!Next
<1>3. ASSUME NEW i \in Schedules, Fire(i)
      PROVE  Contract!Next
  BY <1>3, FireDelivers DEF Contract!Next
<1>4. ASSUME Finish
      PROVE  UNCHANGED <<now, Stage, Earliest>>
  <2>1. UNCHANGED <<now, created, cancelled, delivered, lastAt>>
    BY <1>4 DEF Finish
  <2>2. running \in Schedules /\ delivered[running] > 0
    BY <1>4 DEF Finish, Inv, TypeOK
  <2>3. ASSUME NEW k \in Schedules
        PROVE  deliverAt'[k] = deliverAt[k] \/ (k \in Recurring /\ delivered[k] > 0)
    BY <1>4, <2>2 DEF Finish, Arm, Inv, TypeOK
  <2>4. \A k \in Schedules : Stage'[k] = Stage[k] /\ Earliest'[k] = Earliest[k]
    BY <2>1, <2>3, SameStage, SameEarliest
  <2> QED
    BY <2>1, <2>4, Tables
<1>5. ASSUME Tick
      PROVE  Contract!Tick
  BY <1>5 DEF Tick, Contract!Tick, Stage, Owes, Earliest
<1>6. ASSUME UNCHANGED vars
      PROVE  UNCHANGED <<now, Stage, Earliest>>
  BY <1>6 DEF vars, Stage, Owes, Earliest
<1> QED
  BY <1>1, <1>2, <1>3, <1>4, <1>5, <1>6 DEF Next, Contract!Next

\* The scheduler keeps ScheduleContract when no delay overflows.
THEOREM ContractIsKept == ASSUME NoOverflow PROVE Spec => KeepsScheduleContract
<1>1. Init => Contract!Init
  <2> SUFFICES ASSUME Init PROVE Contract!Init
    OBVIOUS
  <2>1. \A i \in Schedules : Stage[i] = "none" /\ Earliest[i] = 0
    <3> SUFFICES ASSUME NEW i \in Schedules PROVE Stage[i] = "none" /\ Earliest[i] = 0
      OBVIOUS
    <3>1. /\ i \notin created /\ i \notin cancelled
          /\ delivered[i] = 0 /\ deliverAt[i] = 0
      BY DEF Init
    <3>2. Stage[i] = "none"
      BY <3>1 DEF Stage, Owes
    <3>3. Earliest[i] = 0
      BY <3>1 DEF Earliest
    <3> QED
      BY <3>2, <3>3
  <2>2. Stage = [i \in Schedules |-> "none"] /\ Earliest = [i \in Schedules |-> 0]
    BY <2>1, Tables
  <2> QED
    BY <2>2 DEF Init, Contract!Init
<1>2. Inv /\ Spacing /\ [Next]_vars => [Contract!Next]_<<now, Stage, Earliest>>
  BY ContractStep
<1> QED
  BY <1>1, <1>2, SpacingInit, SpacingStep, Invariance, PTL DEF Spec, KeepsScheduleContract, Contract!Spec

-----------------------------------------------------------------------------
(***************************************************************************)
(* Liveness.  tlapm knows nothing of ENABLED, so fairness is stated with   *)
(* guards: the clock reaches every date within its bound, callbacks        *)
(* return, and the event loop does not pass over a timer that is due again *)
(* and again -- other callbacks run between, so this is strong fairness.   *)
(***************************************************************************)

Ready(i) == running = Nobody /\ i \in pending /\ now >= due[i]

Served(i) ==
  /\ []<>(now >= due[i] \/ due[i] > MaxTime)
  /\ []<>(running = Nobody) \/ []<><<Finish>>_vars
  /\ <>[]~Ready(i) \/ []<><<Fire(i)>>_vars

ServedSpec == Spec /\ \A i \in Schedules : Served(i)

Waits(i) == i \in pending /\ delivered[i] = 0 /\ due[i] <= MaxTime

Over(i) == delivered[i] > 0 \/ i \in cancelled

\* A schedule that waits for its first delivery keeps its date until then.
LEMMA WaitsStep ==
  ASSUME Inv, [Next]_vars, NEW i \in Schedules, Waits(i)
  PROVE  \/ Over(i)'
         \/ Waits(i)' /\ due'[i] = due[i] /\ now' >= now
<1> USE DEF Waits, Over
<1>0. /\ i \in created /\ now \in Nat
      /\ delivered \in [Schedules -> Nat] /\ due \in [Schedules -> Nat]
  BY SchedulerAssumption DEF Inv, TypeOK, PendingIsOwed
<1>1. ASSUME NEW j \in Schedules, NEW at \in 0..MaxTime, Schedule(j, at)
      PROVE  Waits(i)' /\ due'[i] = due[i] /\ now' = now
  BY <1>0, <1>1 DEF Schedule, Arm
<1>2. ASSUME NEW j \in Schedules, Cancel(j)
      PROVE  Over(i)' \/ (Waits(i)' /\ due'[i] = due[i] /\ now' = now)
  BY <1>0, <1>2 DEF Cancel
<1>3. ASSUME NEW j \in Schedules, Fire(j)
      PROVE  Over(i)' \/ (Waits(i)' /\ due'[i] = due[i] /\ now' = now)
  BY <1>0, <1>3 DEF Fire
<1>4. ASSUME Finish
      PROVE  Waits(i)' /\ due'[i] = due[i] /\ now' = now
  <2>1. running # i
    BY <1>0, <1>4 DEF Finish, Inv
  <2> QED
    BY <1>0, <1>4, <2>1 DEF Finish, Arm
<1>5. ASSUME Tick \/ UNCHANGED vars
      PROVE  Waits(i)' /\ due'[i] = due[i] /\ now' >= now
  BY <1>0, <1>5 DEF Tick, vars
<1> QED
  BY <1>0, <1>1, <1>2, <1>3, <1>4, <1>5 DEF Next

\* What is scheduled within the clock's bound is delivered or cancelled,
\* whatever other schedules and their handlers do meanwhile.
THEOREM Deliveries == ServedSpec => EventuallyDelivered
<1>1. ASSUME NEW i \in Schedules
      PROVE  ServedSpec => (i \in created /\ delivered[i] = 0 /\ due[i] <= MaxTime
                              ~> delivered[i] > 0 \/ i \in cancelled)
  <2>1. ServedSpec => Spec /\ Served(i)
    BY DEF ServedSpec
  <2>2. Inv /\ i \in created /\ delivered[i] = 0 /\ due[i] <= MaxTime => Waits(i) \/ Over(i)
    BY SchedulerAssumption DEF Inv, TypeOK, PendingIsOwed, Owes, Waits, Over
  <2>3. Inv /\ Waits(i) /\ [Next]_vars => Waits(i)' \/ Over(i)'
    BY WaitsStep
  <2>4. Inv /\ Waits(i) /\ now >= due[i] /\ [Next]_vars => (now >= due[i])' \/ Over(i)'
    <3> SUFFICES ASSUME Inv, [Next]_vars, Waits(i), now >= due[i], ~Over(i)'
                 PROVE  now' >= due'[i]
      OBVIOUS
    <3>1. now \in Nat /\ now' \in Nat /\ due[i] \in Nat
      BY InvStep, SchedulerAssumption DEF Inv, TypeOK
    <3> QED
      BY <3>1, WaitsStep
  <2>5. Inv /\ <<Fire(i)>>_vars => Over(i)'
    BY DEF Inv, TypeOK, Fire, Over
  <2>6. Waits(i) => ~(due[i] > MaxTime) \/ ~Inv
    BY SchedulerAssumption DEF Waits, Inv, TypeOK
  <2>7. Waits(i) /\ running = Nobody /\ now >= due[i] => Ready(i)
    BY DEF Waits, Ready
  <2>8. <<Finish>>_vars => (running = Nobody)'
    BY DEF Finish
  <2>9. Over(i) => delivered[i] > 0 \/ i \in cancelled
    BY DEF Over
  <2> QED
    BY <2>1, <2>2, <2>3, <2>4, <2>5, <2>6, <2>7, <2>8, <2>9, Invariance, PTL DEF Spec, Served
<1> QED
  BY <1>1 DEF EventuallyDelivered
=============================================================================
