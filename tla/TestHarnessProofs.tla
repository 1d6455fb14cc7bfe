-------------------------- MODULE TestHarnessProofs --------------------------
(***************************************************************************)
(* Proofs about TestHarness, for any number of tasks, retries, copies and  *)
(* restarts.                                                               *)
(***************************************************************************)
EXTENDS TestHarness, SequenceTheorems, TLAPS

\* What emitEvent() does to the events of a task.
LEMMA EmitFacts ==
  ASSUME events \in [Tasks -> Seq(TestEvent)], restarts \in Nat,
         NEW t \in Tasks, NEW type \in Kinds, NEW id \in Nat, Emit(t, type, id)
  PROVE  /\ events' \in [Tasks -> Seq(TestEvent)]
         /\ Len(events[t]) \in Nat
         /\ Len(events'[t]) = Len(events[t]) + 1
         /\ DOMAIN events'[t] = 1..(Len(events[t]) + 1)
         /\ DOMAIN events[t] = 1..Len(events[t])
         /\ events'[t][Len(events[t]) + 1] = [type |-> type, id |-> id, epoch |-> restarts]
         /\ \A i \in 1..Len(events[t]) : events'[t][i] = events[t][i]
         /\ \A u \in Tasks \ {t} : events'[u] = events[u]
<1> DEFINE e == [type |-> type, id |-> id, epoch |-> restarts]
<1>1. e \in TestEvent
  BY DEF TestEvent
<1>2. events[t] \in Seq(TestEvent)
  OBVIOUS
<1>3. events'[t] = Append(events[t], e) /\ \A u \in Tasks \ {t} : events'[u] = events[u]
  BY DEF Emit
<1>4. events' \in [Tasks -> Seq(TestEvent)]
  BY <1>1, <1>2 DEF Emit
<1> HIDE DEF e
<1>5. /\ Len(events[t]) \in Nat
      /\ DOMAIN events[t] = 1..Len(events[t])
      /\ Len(Append(events[t], e)) = Len(events[t]) + 1
      /\ DOMAIN Append(events[t], e) = 1..(Len(events[t]) + 1)
      /\ Append(events[t], e)[Len(events[t]) + 1] = e
      /\ \A i \in 1..Len(events[t]) : Append(events[t], e)[i] = events[t][i]
  BY <1>1, <1>2
<1> QED
  BY <1>3, <1>4, <1>5 DEF e

-----------------------------------------------------------------------------
(***************************************************************************)
(* Events.                                                                 *)
(***************************************************************************)

EventsInv == OneEnd /\ EndIsTold /\ EventPerEnvelope /\ SeenInv

\* An event that is emitted for a task that is not over, as its end exactly if
\* that is what it is, and from the bus itself or from an envelope not seen
\* before, keeps the events in order.
LEMMA EmitKeepsEvents ==
  ASSUME TypeOK, EventsInv,
         NEW t \in Tasks, NEW type \in Kinds, NEW id \in Nat, Emit(t, type, id),
         t \notin terminal,
         terminal' = IF type \in Terminals THEN terminal \cup {t} ELSE terminal,
         id = 0 \/ (<<t, id>> \notin seen /\ <<t, id>> \in seen'),
         seen \subseteq seen', restarts' = restarts
  PROVE  EventsInv'
<1> DEFINE n == Len(events[t]) + 1
           e == [type |-> type, id |-> id, epoch |-> restarts]
<1>1. /\ events' \in [Tasks -> Seq(TestEvent)]
      /\ Len(events[t]) \in Nat
      /\ Len(events'[t]) = n
      /\ DOMAIN events'[t] = 1..n
      /\ DOMAIN events[t] = 1..Len(events[t])
      /\ events'[t][n] = e
      /\ \A i \in 1..Len(events[t]) : events'[t][i] = events[t][i]
      /\ \A u \in Tasks \ {t} : events'[u] = events[u]
  BY EmitFacts DEF TypeOK
<1>2. n \in Nat /\ \A i \in 1..n : i = n \/ i \in 1..Len(events[t])
  BY <1>1
<1>3. e.type = type /\ e.id = id /\ e.epoch = restarts
  OBVIOUS
<1>4. Ends(t) = {}
  BY DEF EventsInv, EndIsTold
<1>5. \A i \in 1..Len(events[t]) : events[t][i].type \notin Terminals
  BY <1>1, <1>4 DEF Ends
<1>6. \A u \in Tasks \ {t} : Ends(u)' = Ends(u)
  BY <1>1 DEF Ends
<1>7. Ends(t)' = IF type \in Terminals THEN {n} ELSE {}
  <2>1. Ends(t)' = {i \in 1..n : events'[t][i].type \in Terminals}
    BY <1>1 DEF Ends
  <2>2. n \in 1..n
    BY <1>2
  <2> HIDE DEF n, e
  <2> QED
    BY <2>1, <2>2, <1>1, <1>2, <1>3, <1>5
<1> HIDE DEF n, e
<1>8. OneEnd'
  BY <1>1, <1>6, <1>7 DEF OneEnd, EventsInv
<1>9. EndIsTold'
  BY <1>6, <1>7 DEF EndIsTold, EventsInv
<1>10. SeenInv'
  <2> SUFFICES ASSUME NEW u \in Tasks, NEW i \in DOMAIN events'[u]
               PROVE  /\ events'[u][i].epoch <= restarts
                      /\ events'[u][i].id # 0 /\ events'[u][i].epoch = restarts
                           => <<u, events'[u][i].id>> \in seen'
    BY DEF SeenInv
  <2>1. CASE u # t \/ i # n
    <3>1. i \in DOMAIN events[u] /\ events'[u][i] = events[u][i]
      BY <2>1, <1>1, <1>2
    <3> QED
      BY <3>1 DEF SeenInv, EventsInv
  <2>2. CASE u = t /\ i = n
    BY <2>2, <1>1, <1>3 DEF TypeOK
  <2> QED
    BY <2>1, <2>2
<1>11. EventPerEnvelope'
  <2> SUFFICES ASSUME NEW u \in Tasks, NEW i \in DOMAIN events'[u], NEW j \in DOMAIN events'[u],
                      events'[u][i].id = events'[u][j].id, events'[u][i].id # 0,
                      events'[u][i].epoch = events'[u][j].epoch
               PROVE  i = j
    BY DEF EventPerEnvelope
  <2>1. ASSUME NEW k \in DOMAIN events'[u], u # t \/ k # n
        PROVE  k \in DOMAIN events[u] /\ events'[u][k] = events[u][k]
    BY <2>1, <1>1, <1>2
  <2>2. ASSUME NEW k \in DOMAIN events[t]
        PROVE  ~(events[t][k].id = id /\ id # 0 /\ events[t][k].epoch = restarts)
    BY DEF SeenInv, EventsInv
  <2>3. CASE u # t \/ (i # n /\ j # n)
    BY <2>1, <2>3 DEF EventPerEnvelope, EventsInv
  <2>4. CASE u = t /\ i = n /\ j # n
    BY <2>1, <2>2, <2>4, <1>1, <1>3
  <2>5. CASE u = t /\ i # n /\ j = n
    BY <2>1, <2>2, <2>5, <1>1, <1>3
  <2> QED
    BY <2>3, <2>4, <2>5
<1> QED
  BY <1>8, <1>9, <1>10, <1>11 DEF EventsInv

-----------------------------------------------------------------------------
(***************************************************************************)
(* Types.                                                                  *)
(***************************************************************************)

LEMMA MessageTypes ==
  ASSUME TypeOK
  PROVE  /\ \A m \in down : m.task \in Tasks /\ m.kind \in Kinds /\ m.id \in Nat
         /\ \A m \in up : m.task \in Tasks
BY DEF TypeOK, Inbound, Outbound

\* What Answers() keeps.
LEMMA AnswerTypes ==
  ASSUME TypeOK, NEW t \in Tasks, NEW kind \in Kinds, Answers(t, kind)
  PROVE  down' \subseteq Inbound /\ emitted' \in [Tasks -> Nat]
BY DEF TypeOK, Answers, Answer, Inbound

\* What the network keeps.
LEMMA NetworkTypes ==
  ASSUME TypeOK, NEW kept \in BOOLEAN, NEW m, Copied(kept)
  PROVE  copies' \in 0..MaxCopies /\ Taken(up, m, kept) \subseteq Outbound
           /\ Taken(down, m, kept) \subseteq Inbound
BY HarnessAssumption DEF TypeOK, Copied, Taken

LEMMA DispatchTypes ==
  ASSUME TypeOK, NEW t \in Tasks, attempts[t] <= MaxRetries, Dispatch(t)
  PROVE  attempts' \in [Tasks -> 0..(MaxRetries + 1)] /\ up' \subseteq Outbound /\ sending' \subseteq Tasks
BY HarnessAssumption DEF TypeOK, Dispatch, Send, Outbound

LEMMA TypeStep ==
  ASSUME IInv, [Next]_vars
  PROVE  TypeOK'
<1>0. TypeOK /\ BoundedAttempts
  BY DEF IInv
<1> USE HarnessAssumption
<1> USE <1>0
<1>1. ASSUME Connect \/ RegisterAgent \/ RestartBegins \/ RestartEnds
      PROVE  TypeOK'
  <2>1. CASE Connect
    BY <2>1 DEF TypeOK, Connect, hostVars, pastVars, flags, timers
  <2>2. CASE RegisterAgent
    BY <2>2 DEF TypeOK, RegisterAgent, busVars, pastVars, flags, timers
  <2>3. CASE RestartBegins
    BY <2>3 DEF TypeOK, RestartBegins, hostVars, pastVars, flags, timers
  <2>4. CASE RestartEnds
    <3>1. restarts \in Nat /\ restarts' = restarts + 1
      BY <2>4 DEF TypeOK, RestartEnds
    <3>2. restarts' \in Nat
      BY <3>1
    <3>3. session' \in BOOLEAN /\ restarting' \in BOOLEAN
      BY <2>4 DEF RestartEnds
    <3> QED
      BY <2>4, <3>2, <3>3 DEF TypeOK, RestartEnds, hostVars, flags
  <2> QED
    BY <1>1, <2>1, <2>2, <2>3, <2>4
<1>2. ASSUME NEW t \in Tasks, SendTask(t) \/ AckTimerRetries(t)
      PROVE  TypeOK'
  <2>1. attempts[t] <= MaxRetries /\ Dispatch(t)
    BY <1>2 DEF TypeOK, SendTask, AckTimerRetries, Retries
  <2> QED
    BY <1>2, <2>1, DispatchTypes DEF TypeOK, SendTask, AckTimerRetries, hostVars, pastVars, flags, timers
<1>3. ASSUME NEW t \in Tasks, CancelTask(t)
      PROVE  TypeOK'
  BY <1>3 DEF TypeOK, CancelTask, Cancel, Outbound, hostVars
<1>4. ASSUME NEW t \in Tasks, Sent(t) \/ SendThrows(t) \/ AckTimerIdle(t)
      PROVE  TypeOK'
  BY <1>4 DEF TypeOK, Sent, SendThrows, AckTimerIdle, hostVars, pastVars, flags, timers
<1>5. ASSUME NEW t \in Tasks, AckTimerFails(t) \/ InactivityTimer(t)
      PROVE  TypeOK'
  <2>1. CASE Emit(t, "failed", 0)
    <3>1. events' \in [Tasks -> Seq(TestEvent)]
      BY <2>1, EmitFacts DEF TypeOK, Kinds
    <3> QED
      BY <1>5, <3>1 DEF TypeOK, AckTimerFails, InactivityTimer, Finish, hostVars, pastVars
  <2>2. CASE UNCHANGED events
    BY <1>5, <2>2 DEF TypeOK, AckTimerFails, InactivityTimer, Finish, hostVars, pastVars
  <2> QED
    BY <1>5, <2>1, <2>2 DEF AckTimerFails, InactivityTimer
<1>6. ASSUME NEW kept \in BOOLEAN, NEW m \in down, ReceiveIgnored(m, kept)
      PROVE  TypeOK'
  <2>1. m.task \in Tasks /\ m.id \in Nat
    BY MessageTypes
  <2>2. copies' \in 0..MaxCopies /\ down' \subseteq Inbound
    BY <1>6, NetworkTypes DEF ReceiveIgnored
  <2>3. seen' \subseteq Tasks \X Nat
    BY <1>6, <2>1 DEF ReceiveIgnored, TypeOK
  <2> QED
    BY <1>6, <2>2, <2>3 DEF TypeOK, ReceiveIgnored, hostVars, pastVars, flags, timers
<1>7. ASSUME NEW kept \in BOOLEAN, NEW m \in down, ReceiveActivity(m, kept) \/ ReceiveTerminal(m, kept)
      PROVE  TypeOK'
  <2>1. m.task \in Tasks /\ m.kind \in Kinds /\ m.id \in Nat
    BY MessageTypes
  <2>2. Emit(m.task, m.kind, m.id) /\ Copied(kept) /\ down' = Taken(down, m, kept)
    BY <1>7 DEF ReceiveActivity, ReceiveTerminal
  <2>3. events' \in [Tasks -> Seq(TestEvent)]
    BY <2>1, <2>2, EmitFacts DEF TypeOK
  <2>4. copies' \in 0..MaxCopies /\ down' \subseteq Inbound
    BY <2>2, NetworkTypes
  <2> QED
    BY <1>7, <2>1, <2>3, <2>4 DEF TypeOK, ReceiveActivity, ReceiveTerminal, Finish, hostVars, pastVars
<1>8. ASSUME NEW kept \in BOOLEAN, NEW m \in up, HandleTaskResend(m, kept) \/ HandleTaskUnknown(m, kept)
      PROVE  TypeOK'
  <2>1. m.task \in Tasks /\ "accept" \in Kinds /\ "failed" \in Kinds
    BY MessageTypes DEF Kinds
  <2>2. Copied(kept) /\ up' = Taken(up, m, kept)
    BY <1>8 DEF HandleTaskResend, HandleTaskUnknown
  <2>3. copies' \in 0..MaxCopies /\ up' \subseteq Outbound
    BY <2>2, NetworkTypes
  <2>4. down' \subseteq Inbound /\ emitted' \in [Tasks -> Nat]
    BY <1>8, <2>1, AnswerTypes DEF HandleTaskResend, HandleTaskUnknown, TypeOK
  <2> QED
    BY <1>8, <2>3, <2>4 DEF TypeOK, HandleTaskResend, HandleTaskUnknown, busVars, pastVars, flags, timers
<1>9. ASSUME NEW kept \in BOOLEAN, NEW m \in up, HandleTaskSend(m, kept) \/ HandleTaskCancel(m, kept)
      PROVE  TypeOK'
  <2>1. m.task \in Tasks
    BY MessageTypes
  <2>2. copies' \in 0..MaxCopies /\ up' \subseteq Outbound
    BY <1>9, NetworkTypes DEF HandleTaskSend, HandleTaskCancel
  <2>3. CASE HandleTaskSend(m, kept)
    <3>1. invoked' \in [Tasks -> Nat]
      BY <2>1, <2>3 DEF HandleTaskSend, TypeOK
    <3> QED
      BY <2>1, <2>2, <2>3, <3>1 DEF TypeOK, HandleTaskSend, busVars, pastVars, flags, timers
  <2>4. CASE HandleTaskCancel(m, kept)
    BY <2>1, <2>2, <2>4 DEF TypeOK, HandleTaskCancel, busVars, pastVars, flags, timers
  <2> QED
    BY <1>9, <2>3, <2>4
<1>10. ASSUME NEW t \in Tasks, NEW kind \in AgentKinds, ContextCall(t, kind)
       PROVE  TypeOK'
  <2>1. kind \in Kinds
    BY DEF Kinds
  <2>2. down' \subseteq Inbound /\ emitted' \in [Tasks -> Nat]
    BY <1>10, <2>1, AnswerTypes DEF ContextCall
  <2>3. /\ calls' \in [Tasks -> Nat]
        /\ hostAccepted' \subseteq Tasks /\ hostTerminal' \subseteq Tasks
    BY <1>10 DEF ContextCall, TypeOK
  <2> QED
    BY <1>10, <2>2, <2>3 DEF TypeOK, ContextCall, busVars, pastVars, flags, timers
<1>11. ASSUME NEW t \in Tasks,
              HandlerReturns(t) \/ HandlerRejects(t) \/ HandlerThrows(t) \/ CancelTimerFires(t)
       PROVE  TypeOK'
  <2>1. "cancelled" \in Kinds /\ "failed" \in Kinds
    BY DEF Kinds
  <2>2. down' \subseteq Inbound /\ emitted' \in [Tasks -> Nat]
    BY <1>11, <2>1, AnswerTypes
    DEF HandlerReturns, HandlerRejects, HandlerThrows, CancelTimerFires, HostEnds, TypeOK
  <2> QED
    BY <1>11, <2>2 DEF TypeOK, HandlerReturns, HandlerRejects, HandlerThrows, CancelTimerFires,
                       HostEnds, busVars, pastVars, flags, timers
<1>12. ASSUME UNCHANGED vars
       PROVE  TypeOK'
  BY <1>12 DEF TypeOK, vars, busVars, hostVars, pastVars, flags, timers
<1> QED
  BY <1>1, <1>2, <1>3, <1>4, <1>5, <1>6, <1>7, <1>8, <1>9, <1>10, <1>11, <1>12
  DEF Next, Maestro, Network, Agents, Timers

-----------------------------------------------------------------------------
(***************************************************************************)
(* The step lemmas for the other conjuncts.                                *)
(***************************************************************************)

\* What the host and the network do leaves the bus alone.
HostStep ==
  \/ \E kept \in BOOLEAN : \E m \in up :
       \/ HandleTaskResend(m, kept) \/ HandleTaskUnknown(m, kept)
       \/ HandleTaskSend(m, kept) \/ HandleTaskCancel(m, kept)
  \/ Agents

LEMMA HostLeavesBus ==
  ASSUME HostStep
  PROVE  UNCHANGED <<busVars, pastVars>>
BY DEF HostStep, Agents, HandleTaskResend, HandleTaskUnknown, HandleTaskSend, HandleTaskCancel,
       ContextCall, HandlerReturns, HandlerRejects, HandlerThrows, CancelTimerFires

LEMMA QuietKeepsEvents ==
  ASSUME EventsInv, UNCHANGED <<events, terminal, seen, restarts>>
  PROVE  EventsInv'
BY DEF EventsInv, OneEnd, EndIsTold, EventPerEnvelope, SeenInv, Ends

LEMMA EventStep ==
  ASSUME IInv, [Next]_vars
  PROVE  EventsInv'
<1>1. TypeOK /\ EventsInv
  BY DEF IInv, EventsInv
<1>2. ASSUME NEW t \in Tasks, SendTask(t) \/ CancelTask(t) \/ Sent(t) \/ SendThrows(t)
                                \/ AckTimerIdle(t) \/ AckTimerRetries(t)
      PROVE  EventsInv'
  <2>1. UNCHANGED <<events, terminal, seen, restarts>>
    BY <1>2 DEF SendTask, CancelTask, Sent, SendThrows, AckTimerIdle, AckTimerRetries, flags, pastVars
  <2> QED
    BY <1>1, <2>1, QuietKeepsEvents
<1>3. ASSUME Connect \/ RegisterAgent \/ RestartBegins \/ HostStep \/ UNCHANGED vars
      PROVE  EventsInv'
  <2>1. UNCHANGED <<events, terminal, seen, restarts>>
    BY <1>3, HostLeavesBus DEF Connect, RegisterAgent, RestartBegins, vars, busVars, flags, pastVars
  <2> QED
    BY <1>1, <2>1, QuietKeepsEvents
<1>4. ASSUME RestartEnds
      PROVE  EventsInv'
  <2>1. /\ UNCHANGED <<events, terminal>>
        /\ restarts \in Nat /\ restarts' = restarts + 1
    BY <1>1, <1>4 DEF RestartEnds, TypeOK, flags
  <2>2. \A t \in Tasks : \A i \in DOMAIN events[t] : events[t][i].epoch \in Nat
    <3> SUFFICES ASSUME NEW t \in Tasks, NEW i \in DOMAIN events[t]
                 PROVE  events[t][i].epoch \in Nat
      OBVIOUS
    <3>1. events[t] \in Seq(TestEvent)
      BY <1>1 DEF TypeOK
    <3>2. events[t][i] \in TestEvent
      BY <3>1
    <3> QED
      BY <3>2 DEF TestEvent
  <2>3. SeenInv'
    BY <1>1, <2>1, <2>2 DEF SeenInv, EventsInv
  <2> QED
    BY <1>1, <2>1, <2>3 DEF EventsInv, OneEnd, EndIsTold, EventPerEnvelope, Ends
<1>5. ASSUME NEW t \in Tasks, AckTimerFails(t) \/ InactivityTimer(t)
      PROVE  EventsInv'
  <2>1. CASE t \in terminal
    <3>1. UNCHANGED <<events, terminal, seen, restarts>>
      BY <1>5, <2>1 DEF AckTimerFails, InactivityTimer, flags, pastVars
    <3> QED
      BY <1>1, <3>1, QuietKeepsEvents
  <2>2. CASE t \notin terminal
    <3>1. /\ Emit(t, "failed", 0) /\ terminal' = terminal \cup {t}
          /\ seen' = seen /\ restarts' = restarts
      BY <1>5, <2>2 DEF AckTimerFails, InactivityTimer, Finish, pastVars
    <3>2. "failed" \in Kinds /\ "failed" \in Terminals
      BY DEF Kinds, Terminals
    <3> QED
      BY <1>1, <2>2, <3>1, <3>2, EmitKeepsEvents
  <2> QED
    BY <2>1, <2>2
<1>6. ASSUME NEW kept \in BOOLEAN, NEW m \in down, ReceiveIgnored(m, kept)
      PROVE  EventsInv'
  <2>1. UNCHANGED <<events, terminal, restarts>> /\ seen \subseteq seen'
    BY <1>6 DEF ReceiveIgnored, flags, pastVars
  <2> QED
    BY <1>1, <2>1 DEF EventsInv, OneEnd, EndIsTold, EventPerEnvelope, SeenInv, Ends
<1>7. ASSUME NEW kept \in BOOLEAN, NEW m \in down, ReceiveActivity(m, kept) \/ ReceiveTerminal(m, kept)
      PROVE  EventsInv'
  <2>1. m.task \in Tasks /\ m.kind \in Kinds /\ m.id \in Nat
    BY <1>1, MessageTypes
  <2>2. /\ Emit(m.task, m.kind, m.id)
        /\ m.task \notin terminal /\ <<m.task, m.id>> \notin seen
        /\ seen' = seen \cup {<<m.task, m.id>>}
        /\ restarts' = restarts
        /\ terminal' = IF m.kind \in Terminals THEN terminal \cup {m.task} ELSE terminal
    BY <1>7 DEF ReceiveActivity, ReceiveTerminal, Ignored, Finish, pastVars
  <2> QED
    BY <1>1, <2>1, <2>2, EmitKeepsEvents
<1> QED
  BY <1>2, <1>3, <1>4, <1>5, <1>6, <1>7 DEF Next, Maestro, Network, Timers, HostStep

LEMMA TaskStep ==
  ASSUME IInv, [Next]_vars
  PROVE  TaskInv' /\ BoundedAttempts'
<1>0. TypeOK /\ TaskInv /\ BoundedAttempts
  BY DEF IInv
<1> USE HarnessAssumption
<1> USE <1>0
<1> USE DEF TypeOK, TaskInv, BoundedAttempts
<1>1. ASSUME Connect \/ RegisterAgent \/ RestartBegins \/ RestartEnds \/ UNCHANGED vars
      PROVE  TaskInv' /\ BoundedAttempts'
  BY <1>1 DEF Connect, RegisterAgent, RestartBegins, RestartEnds, vars, busVars, hostVars,
              pastVars, flags, timers
<1>2. ASSUME NEW t \in Tasks, SendTask(t)
      PROVE  TaskInv' /\ BoundedAttempts'
  BY <1>2 DEF SendTask, Dispatch, hostVars, pastVars, flags, timers
<1>3. ASSUME NEW t \in Tasks, CancelTask(t)
      PROVE  TaskInv' /\ BoundedAttempts'
  BY <1>3 DEF CancelTask, hostVars
<1>4. ASSUME NEW t \in Tasks, Sent(t) \/ SendThrows(t)
      PROVE  TaskInv' /\ BoundedAttempts'
  BY <1>4 DEF Sent, SendThrows, hostVars, pastVars, flags, timers
<1>5. ASSUME NEW t \in Tasks, AckTimerRetries(t)
      PROVE  TaskInv' /\ BoundedAttempts'
  BY <1>5 DEF AckTimerRetries, Retries, Dispatch, hostVars, pastVars, flags
<1>6. ASSUME NEW t \in Tasks, AckTimerIdle(t) \/ AckTimerFails(t) \/ InactivityTimer(t)
      PROVE  TaskInv' /\ BoundedAttempts'
  BY <1>6 DEF AckTimerIdle, AckTimerFails, InactivityTimer, Finish, hostVars, pastVars, flags
<1>7. ASSUME NEW kept \in BOOLEAN, NEW m \in down,
             ReceiveIgnored(m, kept) \/ ReceiveActivity(m, kept) \/ ReceiveTerminal(m, kept)
      PROVE  TaskInv' /\ BoundedAttempts'
  BY <1>7 DEF ReceiveIgnored, ReceiveActivity, ReceiveTerminal, Finish, hostVars, pastVars, flags, timers
<1>8. ASSUME NEW kept \in BOOLEAN, NEW m \in up, HandleTaskSend(m, kept)
      PROVE  TaskInv' /\ BoundedAttempts'
  BY <1>8 DEF HandleTaskSend, Outbound, busVars, pastVars, flags, timers
<1>9. ASSUME HostStep, UNCHANGED <<runtimes, invoked>>
      PROVE  TaskInv' /\ BoundedAttempts'
  BY <1>9, HostLeavesBus DEF busVars, pastVars, flags, timers
<1>10. ASSUME HostStep
       PROVE  \/ UNCHANGED <<runtimes, invoked>>
              \/ \E kept \in BOOLEAN : \E m \in up : HandleTaskSend(m, kept)
  BY <1>10 DEF HostStep, Agents, HandleTaskResend, HandleTaskUnknown, HandleTaskCancel,
               ContextCall, HandlerReturns, HandlerRejects, HandlerThrows, CancelTimerFires
<1> QED
  BY <1>1, <1>2, <1>3, <1>4, <1>5, <1>6, <1>7, <1>8, <1>9, <1>10
  DEF Next, Maestro, Network, Timers, HostStep

-----------------------------------------------------------------------------
(***************************************************************************)
(* What is about a task that was sent.                                     *)
(***************************************************************************)

\* Only sendTask() and a retry change how often a task was sent.
LEMMA OnlyDispatchSends ==
  ASSUME [Next]_vars
  PROVE  \/ UNCHANGED attempts
         \/ \E t \in Tasks : SendTask(t) \/ AckTimerRetries(t)
BY HostLeavesBus
DEF Next, Maestro, Network, Timers, HostStep, Connect, RegisterAgent, RestartBegins, RestartEnds,
    CancelTask, Sent, SendThrows, AckTimerIdle, AckTimerFails, InactivityTimer,
    ReceiveIgnored, ReceiveActivity, ReceiveTerminal, vars, busVars

\* A task that was sent stays one that was sent.
LEMMA SentStaysSent ==
  ASSUME TypeOK, [Next]_vars, NEW t \in Tasks, attempts[t] > 0
  PROVE  attempts'[t] > 0
<1>1. ASSUME NEW u \in Tasks, Dispatch(u)
      PROVE  attempts'[t] > 0
  BY <1>1, HarnessAssumption DEF Dispatch, TypeOK
<1> QED
  BY <1>1, OnlyDispatchSends DEF SendTask, AckTimerRetries

\* A new envelope is told from those in flight by its messageId.
LEMMA AnswerKeepsFlight ==
  ASSUME TypeOK, FlightInv, NEW t \in Tasks, NEW kind \in Kinds, Answers(t, kind),
         attempts[t] > 0, kind = "failed" \/ t \in runtimes,
         UNCHANGED <<attempts, runtimes>>
  PROVE  FlightInv'
<1> DEFINE a == [kind |-> kind, task |-> t, id |-> emitted[t] + 1]
<1>1. /\ down' = down \cup {a}
      /\ emitted' = [emitted EXCEPT ![t] = @ + 1]
      /\ a.task = t /\ a.kind = kind /\ a.id = emitted[t] + 1
  BY DEF Answers, Answer
<1>2. /\ emitted'[t] = emitted[t] + 1 /\ emitted[t] \in Nat
      /\ \A u \in Tasks \ {t} : emitted'[u] = emitted[u] /\ emitted[u] \in Nat
  BY <1>1 DEF TypeOK
<1> HIDE DEF a
<1>3. ASSUME NEW m \in down
      PROVE  /\ m.task \in Tasks
             /\ attempts[m.task] > 0
             /\ m.kind = "failed" \/ m.task \in runtimes
             /\ m.id \in 1..emitted'[m.task]
             /\ ~(m.task = t /\ m.id = a.id)
  <2>1. m.task \in Tasks /\ m.id \in 1..emitted[m.task]
    BY MessageTypes DEF FlightInv
  <2>2. m.id \in 1..emitted'[m.task] /\ ~(m.task = t /\ m.id = a.id)
    <3>1. CASE m.task = t
      BY <1>1, <1>2, <2>1, <3>1
    <3>2. CASE m.task # t
      BY <1>2, <2>1, <3>2
    <3> QED
      BY <3>1, <3>2
  <2> QED
    BY <2>1, <2>2 DEF FlightInv
<1>4. a.id \in 1..emitted'[t]
  BY <1>1, <1>2
<1> QED
  BY <1>1, <1>3, <1>4 DEF FlightInv

\* Envelopes that have left the network break nothing.
LEMMA LessFlightIsKept ==
  ASSUME TypeOK, FlightInv, [Next]_vars, down' \subseteq down, runtimes \subseteq runtimes',
         UNCHANGED emitted
  PROVE  FlightInv'
<1>1. \A m \in down : m.task \in Tasks
  BY MessageTypes
<1> QED
  BY <1>1, SentStaysSent DEF FlightInv

LEMMA FlightStep ==
  ASSUME IInv, [Next]_vars
  PROVE  FlightInv'
<1>1. TypeOK /\ FlightInv /\ SourceInv
  BY DEF IInv
<1>2. ASSUME NEW t \in Tasks, NEW kind \in Kinds, Answers(t, kind),
             attempts[t] > 0, kind = "failed" \/ t \in runtimes,
             HostStep, UNCHANGED runtimes
      PROVE  FlightInv'
  <2>1. UNCHANGED attempts
    BY <1>2, HostLeavesBus DEF busVars
  <2> QED
    BY <1>1, <1>2, <2>1, AnswerKeepsFlight
<1>3. ASSUME NEW t \in Tasks, NEW kind \in {"failed", "cancelled"}, HostEnds(t, kind),
             t \in runtimes, HostStep, UNCHANGED runtimes
      PROVE  FlightInv'
  <2>1. CASE UNCHANGED <<down, emitted>>
    BY <1>1, <1>3, <2>1, LessFlightIsKept
  <2>2. CASE Answers(t, kind)
    <3>1. attempts[t] > 0 /\ kind \in Kinds
      BY <1>1, <1>3, HarnessAssumption DEF SourceInv, TypeOK, Kinds
    <3> QED
      BY <1>2, <1>3, <2>2, <3>1
  <2> QED
    BY <1>3, <2>1, <2>2 DEF HostEnds
<1>4. ASSUME NEW kept \in BOOLEAN, NEW m \in up, HandleTaskResend(m, kept) \/ HandleTaskUnknown(m, kept)
      PROVE  FlightInv'
  <2>1. m.task \in Tasks /\ attempts[m.task] > 0
    BY <1>1, MessageTypes DEF SourceInv
  <2>2. HostStep /\ UNCHANGED runtimes
    BY <1>4 DEF HostStep, HandleTaskResend, HandleTaskUnknown
  <2>3. CASE HandleTaskResend(m, kept) /\ Answers(m.task, "accept")
    BY <1>2, <2>1, <2>2, <2>3 DEF HandleTaskResend, Kinds
  <2>4. CASE HandleTaskResend(m, kept) /\ UNCHANGED <<down, emitted>>
    BY <1>1, <2>2, <2>4, LessFlightIsKept
  <2>5. CASE HandleTaskUnknown(m, kept)
    BY <1>2, <2>1, <2>2, <2>5 DEF HandleTaskUnknown, Kinds
  <2> QED
    BY <1>4, <2>3, <2>4, <2>5 DEF HandleTaskResend
<1>5. ASSUME NEW t \in Tasks, NEW kind \in AgentKinds, ContextCall(t, kind)
      PROVE  FlightInv'
  <2>1. attempts[t] > 0 /\ kind \in Kinds /\ t \in runtimes
    BY <1>1, <1>5, HarnessAssumption DEF SourceInv, TypeOK, Kinds, ContextCall
  <2> QED
    BY <1>2, <1>5, <2>1 DEF HostStep, Agents, ContextCall
<1>6. ASSUME NEW t \in Tasks,
             HandlerReturns(t) \/ HandlerRejects(t) \/ HandlerThrows(t) \/ CancelTimerFires(t)
      PROVE  FlightInv'
  <2>1. t \in runtimes /\ HostStep /\ UNCHANGED runtimes
    BY <1>1, <1>6 DEF SourceInv, HostStep, Agents, HandlerReturns, HandlerRejects, HandlerThrows,
                      CancelTimerFires
  <2>2. \/ UNCHANGED <<down, emitted>>
        \/ \E kind \in {"failed", "cancelled"} : HostEnds(t, kind)
    BY <1>6 DEF HandlerReturns, HandlerRejects, HandlerThrows, CancelTimerFires
  <2> QED
    BY <1>1, <1>3, <2>1, <2>2, LessFlightIsKept
<1>7. ASSUME NEW kept \in BOOLEAN, NEW m \in up, HandleTaskSend(m, kept) \/ HandleTaskCancel(m, kept)
      PROVE  FlightInv'
  <2>1. down' = down /\ UNCHANGED emitted /\ runtimes \subseteq runtimes'
    BY <1>7 DEF HandleTaskSend, HandleTaskCancel
  <2> QED
    BY <1>1, <2>1, LessFlightIsKept
<1>8. ASSUME NEW kept \in BOOLEAN, NEW m \in down,
             ReceiveIgnored(m, kept) \/ ReceiveActivity(m, kept) \/ ReceiveTerminal(m, kept)
      PROVE  FlightInv'
  <2>1. down' \subseteq down /\ UNCHANGED <<emitted, runtimes>>
    BY <1>8 DEF ReceiveIgnored, ReceiveActivity, ReceiveTerminal, Taken, hostVars
  <2> QED
    BY <1>1, <2>1, LessFlightIsKept
<1>9. ASSUME Maestro \/ UNCHANGED vars
      PROVE  FlightInv'
  <2>1. UNCHANGED <<down, emitted, runtimes>>
    BY <1>9 DEF Maestro, Connect, RegisterAgent, RestartBegins, RestartEnds, SendTask, CancelTask,
                vars, hostVars
  <2> QED
    BY <1>1, <2>1, LessFlightIsKept
<1>10. ASSUME NEW t \in Tasks, Timers(t) \/ SendThrows(t)
       PROVE  FlightInv'
  <2>1. UNCHANGED <<down, emitted, runtimes>>
    BY <1>10 DEF Timers, Sent, SendThrows, AckTimerIdle, AckTimerRetries, AckTimerFails,
                 InactivityTimer, hostVars
  <2> QED
    BY <1>1, <2>1, LessFlightIsKept
<1> QED
  BY <1>4, <1>5, <1>6, <1>7, <1>8, <1>9, <1>10 DEF Next, Network, Agents

LEMMA SourceStep ==
  ASSUME IInv, [Next]_vars
  PROVE  SourceInv'
<1>1. TypeOK /\ SourceInv /\ TaskInv
  BY DEF IInv
<1>2. \A t \in Tasks : attempts[t] \in Nat /\ attempts'[t] \in Nat
  BY <1>1, TypeStep, HarnessAssumption DEF TypeOK
<1>3. \A t \in Tasks : attempts[t] > 0 => attempts'[t] > 0
  BY <1>1, SentStaysSent
<1>4. \A m \in up : m.task \in Tasks
  BY <1>1, MessageTypes
<1>5. ASSUME inactivityTimer' \cup terminal' \cup runtimes'
                \subseteq inactivityTimer \cup terminal \cup runtimes \cup {t \in Tasks : attempts[t] > 0},
             hostAccepted' \cup hostCancelled' \cup handler' \cup cancelTimer'
                \subseteq runtimes',
             \A m \in up' : m \in up \/ (m.task \in Tasks /\ attempts'[m.task] > 0)
      PROVE  SourceInv'
  <2>1. ASSUME NEW t \in Tasks, attempts'[t] = 0
        PROVE  t \notin inactivityTimer' \cup terminal' \cup runtimes'
    <3>1. ~(attempts[t] > 0) /\ attempts[t] = 0
      BY <1>2, <1>3, <2>1
    <3> QED
      BY <1>1, <1>5, <3>1 DEF SourceInv
  <2>2. \A m \in up' : attempts'[m.task] > 0
    BY <1>1, <1>3, <1>4, <1>5 DEF SourceInv
  <2> QED
    BY <1>5, <2>1, <2>2 DEF SourceInv
<1>6. ASSUME Connect \/ RegisterAgent \/ RestartBegins \/ RestartEnds \/ UNCHANGED vars
      PROVE  SourceInv'
  BY <1>1, <1>5, <1>6 DEF Connect, RegisterAgent, RestartBegins, RestartEnds, SourceInv, vars, busVars,
                          hostVars, pastVars, flags, timers
<1>7. ASSUME NEW t \in Tasks, Dispatch(t), UNCHANGED <<terminal, inactivityTimer, hostVars>>
      PROVE  SourceInv'
  <2>1. attempts'[t] > 0
    BY <1>1, <1>7, HarnessAssumption DEF Dispatch, TypeOK
  <2>2. \A m \in up' : m \in up \/ (m.task \in Tasks /\ attempts'[m.task] > 0)
    BY <1>7, <2>1 DEF Dispatch, Send
  <2> QED
    BY <1>1, <1>5, <1>7, <2>2 DEF SourceInv, hostVars
<1>8. ASSUME NEW t \in Tasks, CancelTask(t)
      PROVE  SourceInv'
  <2>1. \A m \in up' : m \in up \/ (m.task \in Tasks /\ attempts'[m.task] > 0)
    BY <1>8, <1>3 DEF CancelTask, Cancel
  <2> QED
    BY <1>1, <1>5, <1>8, <2>1 DEF SourceInv, CancelTask, hostVars
<1>9. ASSUME NEW t \in Tasks,
             Sent(t) \/ SendThrows(t) \/ AckTimerIdle(t) \/ AckTimerFails(t) \/ InactivityTimer(t)
      PROVE  SourceInv'
  <2>1. t \in sending \cup ackTimer \cup inactivityTimer => attempts[t] > 0
    BY <1>1, <1>2 DEF TaskInv, SourceInv
  <2> QED
    BY <1>1, <1>5, <1>9, <2>1 DEF SourceInv, Sent, SendThrows, AckTimerIdle, AckTimerFails,
                                  InactivityTimer, Finish, hostVars, timers, flags
<1>10. ASSUME NEW kept \in BOOLEAN, NEW m \in down,
             ReceiveIgnored(m, kept) \/ ReceiveActivity(m, kept) \/ ReceiveTerminal(m, kept)
      PROVE  SourceInv'
  <2>1. m.task \in Tasks /\ attempts[m.task] > 0
    BY <1>1, MessageTypes DEF IInv, FlightInv
  <2> QED
    BY <1>1, <1>5, <1>10, <2>1 DEF SourceInv, ReceiveIgnored, ReceiveActivity, ReceiveTerminal, Finish,
                                   hostVars, timers, flags
<1>11. ASSUME HostStep
       PROVE  SourceInv'
  <2>1. UNCHANGED <<terminal, inactivityTimer>>
    BY <1>11, HostLeavesBus DEF busVars, flags, timers
  <2>2. up' \subseteq up
    BY <1>11 DEF HostStep, Agents, HandleTaskResend, HandleTaskUnknown, HandleTaskSend,
                 HandleTaskCancel, ContextCall, HandlerReturns, HandlerRejects, HandlerThrows,
                 CancelTimerFires, Taken
  <2>3. ASSUME NEW kept \in BOOLEAN, NEW m \in up, HandleTaskSend(m, kept)
        PROVE  /\ runtimes' \subseteq runtimes \cup {t \in Tasks : attempts[t] > 0}
               /\ hostAccepted' \cup hostCancelled' \cup handler' \cup cancelTimer' \subseteq runtimes'
    BY <1>1, <1>4, <2>3 DEF HandleTaskSend, SourceInv
  <2>4. ASSUME NEW kept \in BOOLEAN, NEW m \in up,
               HandleTaskResend(m, kept) \/ HandleTaskUnknown(m, kept) \/ HandleTaskCancel(m, kept)
        PROVE  /\ runtimes' = runtimes
               /\ hostAccepted' \cup hostCancelled' \cup handler' \cup cancelTimer' \subseteq runtimes'
    BY <1>1, <2>4 DEF HandleTaskResend, HandleTaskUnknown, HandleTaskCancel, SourceInv
  <2>5. ASSUME Agents
        PROVE  /\ runtimes' = runtimes
               /\ hostAccepted' \cup hostCancelled' \cup handler' \cup cancelTimer' \subseteq runtimes'
    BY <1>1, <2>5 DEF Agents, ContextCall, HandlerReturns, HandlerRejects, HandlerThrows,
                      CancelTimerFires, SourceInv
  <2> QED
    BY <1>5, <1>11, <2>1, <2>2, <2>3, <2>4, <2>5 DEF HostStep
<1> QED
  BY <1>6, <1>7, <1>8, <1>9, <1>10, <1>11
  DEF Next, Maestro, Network, Timers, HostStep, SendTask, AckTimerRetries, flags, timers

LEMMA WatchedStep ==
  ASSUME IInv, [Next]_vars
  PROVE  WatchedInv'
<1>0. TypeOK /\ WatchedInv
  BY DEF IInv
<1> USE HarnessAssumption
<1> USE <1>0
<1> USE DEF TypeOK, WatchedInv
<1>1. ASSUME Connect \/ RegisterAgent \/ RestartBegins \/ RestartEnds \/ UNCHANGED vars
      PROVE  WatchedInv'
  BY <1>1 DEF Connect, RegisterAgent, RestartBegins, RestartEnds, vars, busVars, pastVars, flags, timers
<1>2. ASSUME NEW t \in Tasks, SendTask(t) \/ AckTimerRetries(t)
      PROVE  WatchedInv'
  BY <1>2 DEF SendTask, AckTimerRetries, Dispatch, pastVars, flags, timers
<1>3. ASSUME NEW t \in Tasks, CancelTask(t) \/ Sent(t) \/ SendThrows(t) \/ AckTimerIdle(t)
      PROVE  WatchedInv'
  BY <1>3 DEF CancelTask, Sent, SendThrows, AckTimerIdle, pastVars, flags, timers
<1>4. ASSUME NEW t \in Tasks, AckTimerFails(t) \/ InactivityTimer(t)
      PROVE  WatchedInv'
  BY <1>4 DEF AckTimerFails, InactivityTimer, Finish, pastVars
<1>5. ASSUME NEW kept \in BOOLEAN, NEW m \in down,
             ReceiveIgnored(m, kept) \/ ReceiveActivity(m, kept) \/ ReceiveTerminal(m, kept)
      PROVE  WatchedInv'
  BY <1>5 DEF ReceiveIgnored, ReceiveActivity, ReceiveTerminal, Finish, pastVars, flags, timers
<1>6. ASSUME HostStep
      PROVE  WatchedInv'
  BY <1>6, HostLeavesBus DEF busVars, pastVars, flags, timers
<1> QED
  BY <1>1, <1>2, <1>3, <1>4, <1>5, <1>6 DEF Next, Maestro, Network, Timers, HostStep

-----------------------------------------------------------------------------
(***************************************************************************)
(* The theorems.                                                           *)
(***************************************************************************)

LEMMA InitIInv == Init => IInv
<1> SUFFICES ASSUME Init PROVE IInv
  OBVIOUS
<1>1. \A t \in Tasks : events[t] = <<>>
  BY DEF Init
<1>2. DOMAIN <<>> = {}
  OBVIOUS
<1>3. \A t \in Tasks : DOMAIN events[t] = {} /\ Ends(t) = {}
  BY <1>1, <1>2 DEF Ends
<1>4. events \in [Tasks -> Seq(TestEvent)]
  BY DEF Init
<1>5. TypeOK
  <2>1. /\ attempts \in [Tasks -> 0..(MaxRetries + 1)]
        /\ copies \in 0..MaxCopies
    BY HarnessAssumption DEF Init
  <2>2. /\ session \in BOOLEAN /\ restarting \in BOOLEAN /\ agent \in BOOLEAN
        /\ emitted \in [Tasks -> Nat] /\ calls \in [Tasks -> Nat] /\ invoked \in [Tasks -> Nat]
        /\ restarts \in Nat
    BY DEF Init
  <2> QED
    BY <1>4, <2>1, <2>2 DEF Init, TypeOK
<1>6. OneEnd /\ EndIsTold /\ EventPerEnvelope /\ SeenInv
  BY <1>3 DEF Init, OneEnd, EndIsTold, EventPerEnvelope, SeenInv
<1>7. BoundedAttempts /\ TaskInv
  BY HarnessAssumption DEF Init, BoundedAttempts, TaskInv
<1>8. SourceInv /\ FlightInv /\ WatchedInv
  BY DEF Init, SourceInv, FlightInv, WatchedInv
<1> QED
  BY <1>5, <1>6, <1>7, <1>8 DEF IInv

LEMMA NextIInv == IInv /\ [Next]_vars => IInv'
BY TypeStep, EventStep, TaskStep, SourceStep, FlightStep, WatchedStep DEF IInv, EventsInv

\* AHPTestBus and AHPTestAgentHost keep the inductive invariant.
THEOREM Invariance == Spec => []IInv
BY InitIInv, NextIInv, PTL DEF Spec

\* Whatever the network and the agents do, and over restarts, Maestro is told
\* the end of a task once and nothing after it.
THEOREM TerminalIsFinal == Spec => []OneEnd
<1>1. IInv => OneEnd
  BY DEF IInv
<1> QED
  BY <1>1, Invariance, PTL

\* The bus holds a task to be over exactly when it has told Maestro so: it
\* neither ends a task in silence nor waits for one whose end it has told.
THEOREM EndsAreTold == Spec => []EndIsTold
<1>1. IInv => EndIsTold
  BY DEF IInv
<1> QED
  BY <1>1, Invariance, PTL

\* An envelope gives Maestro one event between two restarts.
THEOREM CopiesAreSilent == Spec => []EventPerEnvelope
<1>1. IInv => EventPerEnvelope
  BY DEF IInv
<1> QED
  BY <1>1, Invariance, PTL

\* The retry budget of a task is kept.
THEOREM RetriesAreBounded == Spec => []BoundedAttempts
<1>1. IInv => BoundedAttempts
  BY DEF IInv
<1> QED
  BY <1>1, Invariance, PTL

\* However often an agent host is sent a task, again or as a duplicate and
\* over restarts of the bus, its handler is invoked once at most.
THEOREM HandlersRunOnce == Spec => []HandlerOnce
<1>1. IInv => HandlerOnce
  BY DEF IInv, TaskInv, HandlerOnce
<1> QED
  BY <1>1, Invariance, PTL

\* A cancelled task is not sent again unless the cancellation caught it being
\* sent.
THEOREM CancelledIsNotRetried == Spec => CancelStopsRetries
<1>1. ASSUME IInv, [Next]_vars, NEW t \in cancelRequested \ caught
      PROVE  attempts'[t] = attempts[t]
  <2>1. t \in Tasks /\ t \notin ackTimer /\ attempts[t] # 0
    BY <1>1 DEF IInv, TypeOK, TaskInv
  <2>2. ASSUME NEW u \in Tasks, Dispatch(u), u # t
        PROVE  attempts'[t] = attempts[t]
    BY <2>1, <2>2, <1>1 DEF Dispatch, IInv, TypeOK
  <2>3. ASSUME UNCHANGED attempts
        PROVE  attempts'[t] = attempts[t]
    BY <2>3
  <2>4. \/ UNCHANGED attempts
        \/ \E u \in Tasks : SendTask(u) \/ AckTimerRetries(u)
    BY <1>1, OnlyDispatchSends
  <2>5. ASSUME NEW u \in Tasks, SendTask(u) \/ AckTimerRetries(u)
        PROVE  Dispatch(u) /\ u # t
    BY <2>1, <2>5 DEF SendTask, AckTimerRetries
  <2> QED
    BY <2>2, <2>3, <2>4, <2>5
<1>2. IInv /\ [Next]_vars => [\A t \in cancelRequested \ caught : attempts'[t] = attempts[t]]_vars
  BY <1>1
<1> QED
  BY <1>2, Invariance, PTL DEF Spec, CancelStopsRetries
-----------------------------------------------------------------------------
(***************************************************************************)
(* The refinement of TaskContract.                                         *)
(***************************************************************************)

LEMMA QuietIsStutter ==
  ASSUME TypeOK, UNCHANGED <<terminal, events, runtimes>>,
         \A t \in Tasks : attempts[t] = 0 <=> attempts'[t] = 0
  PROVE  UNCHANGED <<Stage, runtimes, Told>>
BY DEF Stage, Told

LEMMA FunctionIsSeq ==
  ASSUME NEW S, NEW n \in Nat, NEW f \in [1..n -> S]
  PROVE  f \in Seq(S) /\ Len(f) = n
OBVIOUS

\* A step that emits one event about a task that is not over tells it.
LEMMA EmitTells ==
  ASSUME TypeOK, NEW t \in Tasks, NEW kind \in Kinds, NEW id \in Nat, Emit(t, kind, id),
         t \notin terminal, attempts[t] > 0, kind = "failed" \/ t \in runtimes,
         terminal' = IF kind \in Terminals THEN terminal \cup {t} ELSE terminal,
         UNCHANGED <<attempts, runtimes>>
  PROVE  Contract!Tell(t, kind)
<1> DEFINE n == Len(events[t])
           e == [type |-> kind, id |-> id, epoch |-> restarts]
<1>0. e.type = kind
  OBVIOUS
<1>1. /\ n \in Nat
      /\ DOMAIN events'[t] = 1..(n + 1)
      /\ DOMAIN events[t] = 1..n
      /\ events'[t][n + 1] = e
      /\ \A i \in 1..n : events'[t][i] = events[t][i]
      /\ \A u \in Tasks \ {t} : events'[u] = events[u]
  BY EmitFacts DEF TypeOK
<1>2. \A i \in 1..n : events[t][i].type \in Kinds
  <2> SUFFICES ASSUME NEW i \in 1..n PROVE events[t][i].type \in Kinds
    OBVIOUS
  <2>1. events[t] \in Seq(TestEvent)
    BY DEF TypeOK
  <2>2. events[t][i] \in TestEvent
    BY <2>1
  <2> QED
    BY <2>2 DEF TestEvent
<1> HIDE DEF n, e
<1>3. Told' = [Told EXCEPT ![t] = Append(@, kind)]
  <2>1. /\ Told[t] = [i \in 1..n |-> events[t][i].type]
        /\ Told'[t] = [i \in 1..(n + 1) |-> events'[t][i].type]
    BY <1>1 DEF Told
  <2>2. Told[t] \in Seq(Kinds) /\ Len(Told[t]) = n
    <3>1. Told[t] \in [1..n -> Kinds]
      BY <1>2, <2>1
    <3> QED
      BY <1>1, <3>1, FunctionIsSeq
  <2>3. /\ Append(Told[t], kind) \in Seq(Kinds) /\ Len(Append(Told[t], kind)) = n + 1
        /\ Append(Told[t], kind)[n + 1] = kind
        /\ \A i \in 1..n : Append(Told[t], kind)[i] = Told[t][i]
    BY <2>2, AppendProperties
  <2>4. Told'[t] = Append(Told[t], kind)
    <3>1. ASSUME NEW i \in 1..(n + 1)
          PROVE  /\ Told'[t][i] \in Kinds
                 /\ Told'[t][i] = Append(Told[t], kind)[i]
      <4>1. CASE i = n + 1
        BY <1>0, <1>1, <2>1, <2>3, <4>1
      <4>2. CASE i # n + 1
        <5>1. i \in 1..n
          BY <1>1, <3>1, <4>2
        <5> QED
          BY <1>1, <1>2, <2>1, <2>3, <5>1
      <4> QED
        BY <4>1, <4>2
    <3>2. Told'[t] \in Seq(Kinds) /\ Len(Told'[t]) = n + 1
      <4>1. Told'[t] \in [1..(n + 1) -> Kinds]
        BY <2>1, <3>1
      <4> QED
        BY <1>1, <4>1, FunctionIsSeq
    <3> QED
      BY <2>3, <3>1, <3>2, SeqEqual
  <2>5. \A u \in Tasks \ {t} : Told'[u] = Told[u]
    BY <1>1 DEF Told
  <2> QED
    BY <2>4, <2>5 DEF Told
<1>4. /\ Stage[t] = "sent"
      /\ Stage' = IF kind \in Terminals THEN [Stage EXCEPT ![t] = "over"] ELSE Stage
  <2>1. attempts[t] # 0 /\ attempts' = attempts
    BY HarnessAssumption DEF TypeOK
  <2>2. Stage[t] = "sent"
    BY <2>1 DEF Stage
  <2>3. CASE kind \in Terminals
    BY <2>1, <2>3 DEF Stage
  <2>4. CASE kind \notin Terminals
    BY <2>1, <2>4 DEF Stage
  <2> QED
    BY <2>2, <2>3, <2>4
<1> QED
  BY <1>3, <1>4 DEF Contract!Tell

LEMMA ContractStep ==
  ASSUME IInv, [Next]_vars
  PROVE  [Contract!Next]_<<Stage, runtimes, Told>>
<1>1. TypeOK /\ TaskInv /\ SourceInv /\ FlightInv
  BY DEF IInv
<1>2. \A t \in Tasks : attempts[t] \in Nat
  BY <1>1, HarnessAssumption DEF TypeOK
<1>3. ASSUME NEW t \in Tasks, SendTask(t)
      PROVE  Contract!Send(t)
  <2>1. /\ Stage[t] = "unknown" /\ t \notin terminal
        /\ attempts' = [attempts EXCEPT ![t] = 1]
        /\ UNCHANGED <<terminal, events, runtimes>>
    BY <1>1, <1>3 DEF SendTask, Dispatch, Stage, SourceInv, flags, hostVars
  <2>2. Stage' = [Stage EXCEPT ![t] = "sent"]
    <3>1. attempts'[t] = 1 /\ \A u \in Tasks \ {t} : attempts'[u] = attempts[u]
      BY <1>1, <2>1 DEF TypeOK
    <3>2. Stage'[t] = "sent"
      BY <2>1, <3>1 DEF Stage
    <3>3. \A u \in Tasks \ {t} : Stage'[u] = Stage[u]
      BY <2>1, <3>1 DEF Stage
    <3>4. Stage = [u \in Tasks |-> Stage[u]] /\ Stage' = [u \in Tasks |-> Stage'[u]]
      BY DEF Stage
    <3> QED
      BY <3>2, <3>3, <3>4
  <2> QED
    BY <2>1, <2>2 DEF Contract!Send, Told
<1>4. ASSUME NEW t \in Tasks, AckTimerRetries(t)
      PROVE  UNCHANGED <<Stage, runtimes, Told>>
  <2>1. /\ UNCHANGED <<terminal, events, runtimes>>
        /\ attempts[t] > 0 /\ attempts' = [attempts EXCEPT ![t] = @ + 1]
    BY <1>1, <1>2, <1>4 DEF AckTimerRetries, Dispatch, TaskInv, flags, hostVars
  <2>2. \A u \in Tasks : attempts[u] = 0 <=> attempts'[u] = 0
    BY <1>1, <1>2, <2>1 DEF TypeOK
  <2> QED
    BY <1>1, <2>1, <2>2, QuietIsStutter
<1>5. ASSUME UNCHANGED <<attempts, terminal, events, runtimes>>
      PROVE  UNCHANGED <<Stage, runtimes, Told>>
  BY <1>5 DEF Stage, Told
<1>6. ASSUME Connect \/ RegisterAgent \/ RestartBegins \/ RestartEnds \/ UNCHANGED vars
      PROVE  UNCHANGED <<Stage, runtimes, Told>>
  BY <1>5, <1>6 DEF Connect, RegisterAgent, RestartBegins, RestartEnds, vars, busVars, hostVars, flags
<1>7. ASSUME NEW t \in Tasks, CancelTask(t) \/ Sent(t) \/ SendThrows(t) \/ AckTimerIdle(t)
      PROVE  UNCHANGED <<Stage, runtimes, Told>>
  BY <1>5, <1>7 DEF CancelTask, Sent, SendThrows, AckTimerIdle, hostVars, flags
<1>8. ASSUME NEW t \in Tasks, AckTimerFails(t) \/ InactivityTimer(t)
      PROVE  Contract!Tell(t, "failed") \/ UNCHANGED <<Stage, runtimes, Told>>
  <2>1. "failed" \in Kinds /\ "failed" \in Terminals
    BY DEF Kinds, Terminals
  <2>2. attempts[t] > 0
    BY <1>1, <1>2, <1>8 DEF AckTimerFails, InactivityTimer, TaskInv, SourceInv
  <2>3. CASE t \in terminal
    BY <1>5, <1>8, <2>3 DEF AckTimerFails, InactivityTimer, hostVars
  <2>4. CASE t \notin terminal
    <3>1. /\ Emit(t, "failed", 0) /\ terminal' = terminal \cup {t}
          /\ UNCHANGED <<attempts, runtimes>>
      BY <1>8, <2>4 DEF AckTimerFails, InactivityTimer, Finish, hostVars
    <3> QED
      BY <1>1, <2>1, <2>2, <2>4, <3>1, EmitTells
  <2> QED
    BY <2>3, <2>4
<1>9. ASSUME NEW kept \in BOOLEAN, NEW m \in down, ReceiveIgnored(m, kept)
      PROVE  UNCHANGED <<Stage, runtimes, Told>>
  BY <1>5, <1>9 DEF ReceiveIgnored, hostVars, flags
<1>10. ASSUME NEW kept \in BOOLEAN, NEW m \in down, ReceiveActivity(m, kept) \/ ReceiveTerminal(m, kept)
       PROVE  m.task \in Tasks /\ m.kind \in Kinds /\ Contract!Tell(m.task, m.kind)
  <2>1. /\ m.task \in Tasks /\ m.kind \in Kinds /\ m.id \in Nat
        /\ attempts[m.task] > 0 /\ (m.kind = "failed" \/ m.task \in runtimes)
    BY <1>1, MessageTypes DEF FlightInv
  <2>2. /\ Emit(m.task, m.kind, m.id)
        /\ m.task \notin terminal
        /\ terminal' = IF m.kind \in Terminals THEN terminal \cup {m.task} ELSE terminal
        /\ UNCHANGED <<attempts, runtimes>>
    BY <1>10 DEF ReceiveActivity, ReceiveTerminal, Ignored, Finish, hostVars
  <2> QED
    BY <1>1, <2>1, <2>2, EmitTells
<1>11. ASSUME NEW kept \in BOOLEAN, NEW m \in up, HandleTaskSend(m, kept)
       PROVE  m.task \in Tasks /\ Contract!Work(m.task)
  <2>1. m.task \in Tasks /\ attempts[m.task] > 0
    BY <1>1, MessageTypes DEF SourceInv
  <2>2. Stage[m.task] # "unknown"
    BY <1>2, <2>1 DEF Stage
  <2>3. UNCHANGED <<Stage, Told>>
    BY <1>11 DEF HandleTaskSend, busVars, flags, Stage, Told
  <2> QED
    BY <1>11, <2>1, <2>2, <2>3 DEF Contract!Work, HandleTaskSend
<1>12. ASSUME HostStep, UNCHANGED runtimes
       PROVE  UNCHANGED <<Stage, runtimes, Told>>
  BY <1>5, <1>12, HostLeavesBus DEF busVars, flags
<1>13. ASSUME HostStep
       PROVE  UNCHANGED runtimes \/ \E kept \in BOOLEAN : \E m \in up : HandleTaskSend(m, kept)
  BY <1>13 DEF HostStep, Agents, HandleTaskResend, HandleTaskUnknown, HandleTaskCancel,
               ContextCall, HandlerReturns, HandlerRejects, HandlerThrows, CancelTimerFires
<1>14. "failed" \in Kinds
  BY DEF Kinds
<1> QED
  BY <1>3, <1>4, <1>6, <1>7, <1>8, <1>9, <1>10, <1>11, <1>12, <1>13, <1>14
  DEF Contract!Next, Next, Maestro, Network, Timers, HostStep

\* The bus, the host and the network between them keep TaskContract.
THEOREM ContractIsKept == Spec => KeepsTaskContract
<1>1. Init => Contract!Init
  <2> SUFFICES ASSUME Init PROVE Contract!Init
    OBVIOUS
  <2>1. Stage = [t \in Tasks |-> "unknown"] /\ runtimes = {}
    BY DEF Init, Stage
  <2>2. \A t \in Tasks : events[t] = <<>> /\ DOMAIN <<>> = {}
    BY DEF Init
  <2>3. \A t \in Tasks : [i \in DOMAIN events[t] |-> events[t][i].type] = <<>>
    BY <2>2
  <2>4. Told = [t \in Tasks |-> <<>>]
    BY <2>3 DEF Told
  <2> QED
    BY <2>1, <2>4 DEF Contract!Init
<1>2. IInv /\ [Next]_vars => [Contract!Next]_<<Stage, runtimes, Told>>
  BY ContractStep
<1> QED
  BY <1>1, <1>2, Invariance, PTL DEF Spec, KeepsTaskContract, Contract!Spec
-----------------------------------------------------------------------------
(***************************************************************************)
(* Liveness.  tlapm knows nothing of ENABLED, so the fairness of FairSpec  *)
(* is stated here with the guards of its two actions in place of it: the   *)
(* transport's send comes back, and a timer that stays set fires.          *)
(***************************************************************************)

Served(t) ==
  /\ []<>(t \notin sending) \/ []<><<Sent(t)>>_vars
  /\ []<>(t \notin inactivityTimer) \/ []<><<InactivityTimer(t)>>_vars

ServedSpec == Spec /\ \A t \in Tasks : Served(t)

\* A task nothing more is owed for.
Settled(t) == t \in terminal \/ t \in unsent \/ restarts > 0

\* A send that is under way ends with the inactivity timer set, or with an
\* exception ...
LEMMA SendingStep ==
  ASSUME IInv, [Next]_vars, NEW t \in Tasks, t \in sending
  PROVE  t \in sending' \/ t \in inactivityTimer' \/ Settled(t)'
<1>1. TypeOK
  BY DEF IInv
<1>2. ASSUME NEW u \in Tasks, Sent(u) \/ SendThrows(u)
      PROVE  t \in sending' \/ t \in inactivityTimer' \/ Settled(t)'
  BY <1>2 DEF Sent, SendThrows, Settled
<1>3. ASSUME UNCHANGED sending \/ \E u \in Tasks : Dispatch(u)
      PROVE  t \in sending'
  BY <1>3 DEF Dispatch
<1>4. ASSUME HostStep
      PROVE  t \in sending'
  BY <1>3, <1>4, HostLeavesBus DEF busVars
<1> QED
  BY <1>2, <1>3, <1>4
  DEF Next, Maestro, Network, Timers, HostStep, Connect, RegisterAgent, RestartBegins, RestartEnds,
      SendTask, CancelTask, AckTimerIdle, AckTimerRetries, AckTimerFails, InactivityTimer,
      ReceiveIgnored, ReceiveActivity, ReceiveTerminal, vars, busVars

\* ... and that timer stays set until the task is over or the bus restarts.
LEMMA TimerStep ==
  ASSUME IInv, [Next]_vars, NEW t \in Tasks, t \in inactivityTimer
  PROVE  t \in inactivityTimer' \/ Settled(t)'
<1>1. TypeOK
  BY DEF IInv
<1>2. ASSUME RestartEnds
      PROVE  Settled(t)'
  BY <1>1, <1>2 DEF RestartEnds, Settled, TypeOK
<1>3. ASSUME NEW u \in Tasks, AckTimerFails(u) \/ InactivityTimer(u)
      PROVE  t \in inactivityTimer' \/ Settled(t)'
  BY <1>3 DEF AckTimerFails, InactivityTimer, Finish, Settled
<1>4. ASSUME NEW kept \in BOOLEAN, NEW m \in down, ReceiveActivity(m, kept) \/ ReceiveTerminal(m, kept)
      PROVE  t \in inactivityTimer' \/ Settled(t)'
  BY <1>4 DEF ReceiveActivity, ReceiveTerminal, Finish, Settled
<1>5. ASSUME HostStep
      PROVE  t \in inactivityTimer'
  BY <1>5, HostLeavesBus DEF busVars, timers
<1>6. ASSUME NEW u \in Tasks, SendTask(u) \/ CancelTask(u) \/ Sent(u) \/ SendThrows(u)
                                 \/ AckTimerIdle(u) \/ AckTimerRetries(u)
      PROVE  t \in inactivityTimer'
  BY <1>6 DEF SendTask, CancelTask, Sent, SendThrows, AckTimerIdle, AckTimerRetries, timers
<1>7. ASSUME NEW kept \in BOOLEAN, NEW m \in down, ReceiveIgnored(m, kept)
      PROVE  t \in inactivityTimer'
  BY <1>7 DEF ReceiveIgnored, timers
<1>8. ASSUME Connect \/ RegisterAgent \/ RestartBegins \/ UNCHANGED vars
      PROVE  t \in inactivityTimer'
  BY <1>8 DEF Connect, RegisterAgent, RestartBegins, vars, busVars, timers
<1> QED
  BY <1>2, <1>3, <1>4, <1>5, <1>6, <1>7, <1>8 DEF Next, Maestro, Network, Timers, HostStep

\* One task ends if its own send comes back and its own timer fires.
LEMMA TaskEnds ==
  ASSUME NEW t \in Tasks
  PROVE  Spec /\ Served(t) => (attempts[t] > 0 ~> Settled(t))
<1>1. IInv /\ t \in sending /\ [Next]_vars
        => (t \in sending)' \/ (t \in inactivityTimer)' \/ Settled(t)'
  BY SendingStep
<1>2. IInv /\ <<Sent(t)>>_vars => (t \in inactivityTimer)'
  BY DEF Sent
<1>3. IInv /\ t \in inactivityTimer /\ [Next]_vars => (t \in inactivityTimer)' \/ Settled(t)'
  BY TimerStep
<1>4. IInv /\ <<InactivityTimer(t)>>_vars => Settled(t)'
  BY DEF InactivityTimer, Finish, Settled
<1>5. IInv /\ attempts[t] > 0 => t \in sending \/ t \in inactivityTimer \/ Settled(t)
  BY DEF IInv, WatchedInv, Settled
<1>6. (t \notin sending <=> ~(t \in sending)) /\ (t \notin inactivityTimer <=> ~(t \in inactivityTimer))
  OBVIOUS
<1> QED
  BY <1>1, <1>2, <1>3, <1>4, <1>5, <1>6, Invariance, PTL DEF Spec, Served

\* Maestro is told the end of every task it sent, whatever the network and the
\* agent do, unless the transport threw or the bus was restarted.
THEOREM TasksEnd == ServedSpec => EveryTaskEnds
<1>1. ASSUME NEW t \in Tasks
      PROVE  ServedSpec => (attempts[t] > 0 ~> Ends(t) # {} \/ t \in unsent \/ restarts > 0)
  <2>1. ServedSpec => Spec /\ Served(t)
    BY DEF ServedSpec
  <2>2. IInv /\ Settled(t) => Ends(t) # {} \/ t \in unsent \/ restarts > 0
    BY DEF IInv, EndIsTold, Settled
  <2> QED
    BY <2>1, <2>2, TaskEnds, Invariance, PTL
<1> QED
  BY <1>1 DEF EveryTaskEnds
=============================================================================
