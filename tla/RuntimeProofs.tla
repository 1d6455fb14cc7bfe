---------------------------- MODULE RuntimeProofs ----------------------------
(***************************************************************************)
(* Theorems about Runtime and, in the last part, about PacketTrace, for    *)
(* every set of calls, packets, tasks and roles, every table of who sends  *)
(* what, and every MaxAttempts.                                            *)
(***************************************************************************)
EXTENDS PacketTrace, FiniteSetTheorems, TLAPS

LEMMA TypeInit == Init => TypeOK
  BY RuntimeAssumption DEF Init, TypeOK, RuntimeStats

\* The statistics stay numbers in the four actions that count something.
LEMMA StatsStep ==
  ASSUME TypeOK, LoopInv, NEW s \in Sends,
         NoCapableRole(s) \/ Reject(s) \/ Accept(s) \/ DeadLetter(s) \/ Complete(s)
  PROVE  stats' \in RuntimeStats
<1>1. /\ stats.processed \in Nat /\ stats.failed \in Nat /\ stats.retried \in Nat
      /\ stats.deadLettered \in Nat /\ stats.dispatched \in Nat
      /\ stats = [processed |-> stats.processed, failed |-> stats.failed,
                  retried |-> stats.retried, deadLettered |-> stats.deadLettered,
                  dispatched |-> stats.dispatched]
  BY DEF TypeOK, RuntimeStats
<1>2. Dispatched(s) \in Nat
  BY <1>1 DEF Dispatched
<1>3. CASE Reject(s)
  <2>1. stats' = [processed |-> stats.processed, failed |-> stats.failed + 1,
                  retried |-> stats.retried, deadLettered |-> stats.deadLettered,
                  dispatched |-> Dispatched(s)]
    BY <1>1, <1>3 DEF Reject
  <2>2. QED
    BY <1>1, <1>2, <2>1 DEF RuntimeStats
<1>4. CASE Accept(s)
  <2>1. stats' = [processed |-> stats.processed, failed |-> stats.failed,
                  retried |-> stats.retried, deadLettered |-> stats.deadLettered,
                  dispatched |-> Dispatched(s)]
    BY <1>1, <1>4 DEF Accept
  <2>2. QED
    BY <1>1, <1>2, <2>1 DEF RuntimeStats
<1>5. CASE DeadLetter(s)
  <2>1. stats' = [processed |-> stats.processed, failed |-> stats.failed + 1,
                  retried |-> stats.retried + (attempt[s] - 1),
                  deadLettered |-> stats.deadLettered + 1,
                  dispatched |-> stats.dispatched]
    BY <1>1, <1>5 DEF DeadLetter
  <2>2. attempt[s] - 1 \in Nat
    BY <1>5, RuntimeAssumption DEF DeadLetter
  <2>3. QED
    BY <1>1, <2>1, <2>2 DEF RuntimeStats
<1>6. CASE Complete(s)
  <2>1. stats' = [processed |-> stats.processed + 1, failed |-> stats.failed,
                  retried |-> stats.retried + (attempt[s] - 1),
                  deadLettered |-> stats.deadLettered,
                  dispatched |-> stats.dispatched]
    BY <1>1, <1>6 DEF Complete
  <2>2. attempt[s] - 1 \in Nat
    BY <1>6 DEF Complete, TypeOK, LoopInv
  <2>3. QED
    BY <1>1, <2>1, <2>2 DEF RuntimeStats
<1>7. CASE NoCapableRole(s)
  <2>1. stats' = [processed |-> stats.processed, failed |-> stats.failed + 1,
                  retried |-> stats.retried, deadLettered |-> stats.deadLettered,
                  dispatched |-> stats.dispatched]
    BY <1>1, <1>7 DEF NoCapableRole
  <2>2. QED
    BY <1>1, <2>1 DEF RuntimeStats
<1>8. QED
  BY <1>3, <1>4, <1>5, <1>6, <1>7

LEMMA TypeStep == TypeOK /\ LoopInv /\ [Next]_vars => TypeOK'
<1> SUFFICES ASSUME TypeOK, LoopInv, [Next]_vars PROVE TypeOK'
  OBVIOUS
<1> USE RuntimeAssumption DEF Packet, Task, sendVars, ackVars, dlqVars
<1>1. ASSUME NEW s \in Sends, Reject(s) PROVE TypeOK'
  <2>1. stats' \in RuntimeStats
    BY <1>1, StatsStep
  <2>2. pendingAcks' \in [Tasks -> Sends \cup {NoSend}]
    BY <1>1 DEF Reject, FilePromise, TypeOK
  <2>3. promise' \in [Sends -> {"none", "pending", "resolved", "rejected"}]
    BY <1>1 DEF Reject, FilePromise, TypeOK
  <2>4. QED
    BY <1>1, <2>1, <2>2, <2>3 DEF Reject, AfterSend, Outcomes, TypeOK
<1>2. ASSUME NEW s \in Sends, Accept(s) PROVE TypeOK'
  <2>1. stats' \in RuntimeStats
    BY <1>2, StatsStep
  <2>2. pendingAcks' \in [Tasks -> Sends \cup {NoSend}]
    BY <1>2 DEF Accept, FilePromise, TypeOK
  <2>3. promise' \in [Sends -> {"none", "pending", "resolved", "rejected"}]
    BY <1>2 DEF Accept, FilePromise, TypeOK
  <2>4. attempt' \in [Sends -> 0..MaxAttempts]
    BY <1>2 DEF Accept, TypeOK
  <2>5. pipeline' \in [Sends -> [1..MaxAttempts -> {"none", "open"} \cup Settlements]]
    BY <1>2 DEF Accept, TypeOK
  <2>6. pc' \in [Sends -> {"idle", "awaiting", "settled", "backoff", "returned", "done"}]
    BY <1>2 DEF Accept, TypeOK
  <2>7. QED
    BY <1>2, <2>1, <2>2, <2>3, <2>4, <2>5, <2>6 DEF Accept, TypeOK
<1>3. ASSUME NEW s \in Sends, TimerFires(s) PROVE TypeOK'
  BY <1>3 DEF TimerFires, Failures, TypeOK
<1>4. ASSUME NEW s \in Sends, Backoff(s) PROVE TypeOK'
  BY <1>4 DEF Backoff, TypeOK
<1>5. ASSUME NEW s \in Sends, Retry(s) PROVE TypeOK'
  BY <1>5 DEF Retry, LoopInv, TypeOK
<1>6. ASSUME NEW s \in Sends, DeadLetter(s) PROVE TypeOK'
  <2>1. stats' \in RuntimeStats
    BY <1>6, StatsStep
  <2>2. dlq' \in [Packets -> Nat]
    BY <1>6 DEF DeadLetter, Pushed, SqlitePush, MemoryPush, TypeOK
  <2>3. QED
    BY <1>6, <2>1, <2>2 DEF DeadLetter, AfterSend, Outcomes, TypeOK
<1>7. ASSUME NEW s \in Sends, Complete(s) PROVE TypeOK'
  <2>1. stats' \in RuntimeStats
    BY <1>7, StatsStep
  <2>2. pendingAcks' \in [Tasks -> Sends \cup {NoSend}]
        /\ promise' \in [Sends -> {"none", "pending", "resolved", "rejected"}]
    BY <1>7 DEF Complete, RejectPending, TypeOK
  <2>3. QED
    BY <1>7, <2>1, <2>2 DEF Complete, AfterSend, Outcomes, TypeOK
<1>8. ASSUME NEW s \in Sends, AckReturns(s) PROVE TypeOK'
  BY <1>8 DEF AckReturns, RejectPending, TypeOK
<1>9. ASSUME NEW s \in Sends, DeliverResult(s) PROVE TypeOK'
  BY <1>9 DEF DeliverResult, TypeOK
<1>10. ASSUME NEW s \in Sends, NEW a \in 1..MaxAttempts, Route(s, a) PROVE TypeOK'
  BY <1>10 DEF Route, TypeOK
<1>11. ASSUME NEW s \in Sends, NEW a \in 1..MaxAttempts, NEW r \in Settlements,
              Settle(s, a, r)
       PROVE  TypeOK'
  <2>1. pipeline' \in [Sends -> [1..MaxAttempts -> {"none", "open"} \cup Settlements]]
    BY <1>11 DEF Settle, Settlements, TypeOK
  <2>2. pc' \in [Sends -> {"idle", "awaiting", "settled", "backoff", "returned", "done"}]
    BY <1>11 DEF Settle, Settlements, TypeOK
  <2>3. result' \in [Sends -> {"none"} \cup Replies \cup Failures]
    BY <1>11 DEF Settle, Settlements, Failures, TypeOK
  <2>4. QED
    BY <1>11, <2>1, <2>2, <2>3 DEF Settle, Settlements, TypeOK
<1>12. ASSUME Environment PROVE TypeOK'
  <2>1. ASSUME NEW r \in Roles, UnregisterRole(r) PROVE TypeOK'
    BY <2>1 DEF UnregisterRole, TypeOK
  <2>2. ASSUME NEW r \in Roles, NEW how \in {"accepting", "refusing"}, RegisterRole(r, how)
        PROVE  TypeOK'
    BY <2>2 DEF RegisterRole, TypeOK
  <2>3. ASSUME NEW p \in Packets, RemoveDeadLetter(p) PROVE TypeOK'
    BY <2>3 DEF RemoveDeadLetter, TypeOK
  <2>4. CASE ClearDLQ
    BY <2>4 DEF ClearDLQ, TypeOK
  <2>5. QED
    BY <1>12, <2>1, <2>2, <2>3, <2>4 DEF Environment
<1>13. ASSUME NEW s \in Sends, NoCapableRole(s) PROVE TypeOK'
  <2>1. stats' \in RuntimeStats
    BY <1>13, StatsStep
  <2>2. QED
    BY <1>13, <2>1 DEF NoCapableRole, Outcomes, TypeOK
<1>14. CASE UNCHANGED vars
  BY <1>14 DEF vars, TypeOK
<1>15. QED
  BY <1>1, <1>2, <1>3, <1>4, <1>5, <1>6, <1>7, <1>8, <1>9, <1>10, <1>11, <1>12, <1>13, <1>14
     DEF Next, Submit, Continue, Pipeline, Answers

LEMMA LoopStep == TypeOK /\ LoopInv /\ [Next]_vars => LoopInv'
<1> SUFFICES ASSUME TypeOK, LoopInv, [Next]_vars PROVE LoopInv'
  OBVIOUS
<1> USE RuntimeAssumption DEF LoopInv, TypeOK, sendVars
<1>1. ASSUME NEW s \in Sends, Reject(s) PROVE LoopInv'
  BY <1>1 DEF Reject, EntersSend, AfterSend
<1>2. ASSUME NEW s \in Sends, Accept(s) PROVE LoopInv'
  BY <1>2 DEF Accept, EntersSend, Settlements, Replies
<1>3. ASSUME NEW s \in Sends, TimerFires(s) PROVE LoopInv'
  BY <1>3 DEF TimerFires
<1>4. ASSUME NEW s \in Sends, Backoff(s) PROVE LoopInv'
  BY <1>4 DEF Backoff
<1>5. ASSUME NEW s \in Sends, Retry(s) PROVE LoopInv'
  BY <1>5 DEF Retry, Settlements, Replies
<1>6. ASSUME NEW s \in Sends, DeadLetter(s) PROVE LoopInv'
  BY <1>6 DEF DeadLetter, AfterSend
<1>7. ASSUME NEW s \in Sends, Complete(s) PROVE LoopInv'
  BY <1>7 DEF Complete, AfterSend, Replies
<1>8. ASSUME NEW s \in Sends, AckReturns(s) PROVE LoopInv'
  BY <1>8 DEF AckReturns
<1>9. ASSUME NEW s \in Sends, DeliverResult(s) PROVE LoopInv'
  BY <1>9 DEF DeliverResult
<1>10. ASSUME NEW s \in Sends, NEW a \in 1..MaxAttempts, Route(s, a) PROVE LoopInv'
  BY <1>10 DEF Route
<1>11. ASSUME NEW s \in Sends, NEW a \in 1..MaxAttempts, NEW r \in Settlements,
              Settle(s, a, r)
       PROVE  LoopInv'
  BY <1>11 DEF Settle, Awaited, Settlements, Replies
<1>12. ASSUME Environment PROVE LoopInv'
  BY <1>12 DEF Environment, RegisterRole, UnregisterRole, RemoveDeadLetter, ClearDLQ
<1>13. ASSUME NEW s \in Sends, NoCapableRole(s) PROVE LoopInv'
  BY <1>13 DEF NoCapableRole
<1>14. CASE UNCHANGED vars
  BY <1>14 DEF vars
<1>15. QED
  BY <1>1, <1>2, <1>3, <1>4, <1>5, <1>6, <1>7, <1>8, <1>9, <1>10, <1>11, <1>12, <1>13, <1>14
     DEF Next, Submit, Continue, Pipeline, Answers

\* The promises of a call's attempts and the loop that awaits them, step by step.
AttemptsOK == AttemptInv /\ AnswerOfLastAttempt

LEMMA AttemptStep == TypeOK /\ LoopInv /\ AttemptsOK /\ [Next]_vars => AttemptsOK'
<1> SUFFICES ASSUME TypeOK, LoopInv, AttemptsOK, [Next]_vars PROVE AttemptsOK'
  OBVIOUS
<1> USE RuntimeAssumption DEF AttemptsOK, AttemptInv, AnswerOfLastAttempt, LoopInv, Packet
<1>1. ASSUME NEW s \in Sends, Reject(s) PROVE AttemptsOK'
  BY <1>1 DEF Reject, EntersSend, AfterSend, TypeOK, Replies, Settlements, Failures
<1>2. ASSUME NEW s \in Sends, Accept(s) PROVE AttemptsOK'
  <2>1. /\ attempt' = [attempt EXCEPT ![s] = 1] /\ pipeline' = [pipeline EXCEPT ![s][1] = "open"]
        /\ pc' = [pc EXCEPT ![s] = "awaiting"] /\ UNCHANGED <<result, outcome>>
        /\ result[s] = "none" /\ outcome[s] = "none"
    BY <1>2 DEF Accept, EntersSend
  <2>2. \A u \in Sends : u # s => pipeline'[u] = pipeline[u] /\ attempt'[u] = attempt[u] /\ pc'[u] = pc[u]
    BY <2>1 DEF TypeOK
  <2>3. pipeline'[s][1] = "open" /\ attempt'[s] = 1 /\ pc'[s] = "awaiting"
    BY <2>1 DEF TypeOK
  <2>4. QED
    BY <2>1, <2>2, <2>3 DEF Replies, Settlements
<1>3. ASSUME NEW s \in Sends, TimerFires(s) PROVE AttemptsOK'
  BY <1>3 DEF TimerFires, TypeOK, Replies, Settlements, Failures
<1>4. ASSUME NEW s \in Sends, Backoff(s) PROVE AttemptsOK'
  BY <1>4 DEF Backoff, TypeOK, Replies, Settlements, Failures
<1>5. ASSUME NEW s \in Sends, Retry(s) PROVE AttemptsOK'
  <2> DEFINE k == attempt[s] + 1
  <2>1. /\ attempt' = [attempt EXCEPT ![s] = k] /\ pipeline' = [pipeline EXCEPT ![s][k] = "open"]
        /\ pc' = [pc EXCEPT ![s] = "awaiting"] /\ UNCHANGED <<result, outcome>>
        /\ pc[s] = "backoff" /\ result[s] = "none" /\ outcome[s] = "none"
    BY <1>5 DEF Retry
  <2>2. attempt[s] \in Nat /\ attempt[s] >= 1 /\ k \in 1..MaxAttempts
    BY <2>1 DEF TypeOK
  <2> HIDE DEF k
  <2>3. \A u \in Sends : u # s => pipeline'[u] = pipeline[u] /\ attempt'[u] = attempt[u] /\ pc'[u] = pc[u]
    BY <2>1 DEF TypeOK
  <2>4. /\ pipeline'[s][k] = "open" /\ attempt'[s] = k /\ pc'[s] = "awaiting"
        /\ \A a \in 1..MaxAttempts : a # k => pipeline'[s][a] = pipeline[s][a]
    BY <2>1, <2>2 DEF TypeOK
  <2>5. Packet(s) \notin HasTimeout => \A a \in 1..MaxAttempts : a < k => pipeline[s][a] = "threw"
    <3> SUFFICES ASSUME Packet(s) \notin HasTimeout, NEW a \in 1..MaxAttempts, a < k
                 PROVE  pipeline[s][a] = "threw"
      OBVIOUS
    <3>1. pipeline[s][attempt[s]] = "threw" /\ (a < attempt[s] => pipeline[s][a] = "threw")
      BY <2>1
    <3>2. a = attempt[s] \/ a < attempt[s]
      BY <2>2 DEF k
    <3>3. QED
      BY <3>1, <3>2
  <2>6. AttemptInv'
    <3> SUFFICES ASSUME NEW u \in Sends
                 PROVE  /\ result'[u] \in Settlements => pipeline'[u][attempt'[u]] = result'[u]
                        /\ Packet(u) \notin HasTimeout =>
                             /\ result'[u] # "timeout"
                             /\ pc'[u] = "awaiting" => pipeline'[u][attempt'[u]] = "open"
                             /\ pc'[u] = "backoff" => pipeline'[u][attempt'[u]] = "threw"
      OBVIOUS
    <3>1. CASE u = s
      <4>1. result'[s] = "none" /\ "none" \notin Settlements
        BY <2>1 DEF Replies, Settlements
      <4>2. QED
        BY <2>4, <3>1, <4>1
    <3>2. CASE u # s
      <4>1. result'[u] = result[u] /\ pipeline'[u] = pipeline[u] /\ attempt'[u] = attempt[u] /\ pc'[u] = pc[u]
        BY <2>1, <2>3, <3>2
      <4>2. QED
        BY <4>1
    <3>3. QED
      BY <3>1, <3>2
  <2>7. ASSUME NEW u \in Sends, Packet(u) \notin HasTimeout, NEW a \in 1..MaxAttempts, a < attempt'[u]
        PROVE  pipeline'[u][a] = "threw"
    <3>1. CASE u = s
      BY <2>2, <2>4, <2>5, <2>7, <3>1
    <3>2. CASE u # s
      BY <2>3, <2>7, <3>2
    <3>3. QED
      BY <3>1, <3>2
  <2>8. ASSUME NEW u \in Sends, outcome'[u] \in Replies \cup {"deadLettered"}
        PROVE  UNCHANGED <<attempt[u], pipeline[u], outcome[u]>>
    BY <2>1, <2>3, <2>8 DEF Replies
  <2>9. QED
    BY <2>6, <2>7, <2>8
<1>6. ASSUME NEW s \in Sends, DeadLetter(s) PROVE AttemptsOK'
  BY <1>6 DEF DeadLetter, AfterSend, TypeOK, Replies, Settlements, Failures
<1>7. ASSUME NEW s \in Sends, Complete(s) PROVE AttemptsOK'
  BY <1>7 DEF Complete, AfterSend, TypeOK, Replies, Settlements, Failures
<1>8. ASSUME NEW s \in Sends, AckReturns(s) PROVE AttemptsOK'
  BY <1>8 DEF AckReturns, TypeOK, Replies, Settlements, Failures
<1>9. ASSUME NEW s \in Sends, DeliverResult(s) PROVE AttemptsOK'
  BY <1>9 DEF DeliverResult, TypeOK, Replies, Settlements, Failures
<1>10. ASSUME NEW s \in Sends, NoCapableRole(s) PROVE AttemptsOK'
  BY <1>10 DEF NoCapableRole, TypeOK, Replies, Settlements, Failures
<1>11. ASSUME NEW s \in Sends, NEW a \in 1..MaxAttempts, Route(s, a) PROVE AttemptsOK'
  BY <1>11 DEF Route
<1>12. ASSUME NEW s \in Sends, NEW a \in 1..MaxAttempts, NEW r \in Settlements, Settle(s, a, r)
       PROVE  AttemptsOK'
  BY <1>12 DEF Settle, Awaited, TypeOK, Replies, Settlements, Failures
<1>13. ASSUME Environment PROVE AttemptsOK'
  BY <1>13 DEF Environment, RegisterRole, UnregisterRole, RemoveDeadLetter, ClearDLQ, sendVars
<1>14. CASE UNCHANGED vars
  BY <1>14 DEF vars
<1>15. QED
  BY <1>1, <1>2, <1>3, <1>4, <1>5, <1>6, <1>7, <1>8, <1>9, <1>10, <1>11, <1>12, <1>13, <1>14
     DEF Next, Submit, Continue, Pipeline, Answers

-----------------------------------------------------------------------------
\* The effect on pendingAcks and promise, point by point: the promise that
\* waits under t settles, ...
Settles(t, how) ==
  /\ \A x \in Tasks : pendingAcks'[x] = IF x = t THEN NoSend ELSE pendingAcks[x]
  /\ \A u \in Sends : promise'[u] = IF u = pendingAcks[t] THEN how ELSE promise[u]

\* ... or call s files its own.
Files(s) ==
  /\ \A x \in Tasks : pendingAcks'[x] = IF x = Task(s) THEN s ELSE pendingAcks[x]
  /\ \A u \in Sends : promise'[u] = IF u = s THEN "pending" ELSE promise[u]

LEMMA RejectPendingSettles ==
  ASSUME TypeOK, NEW t \in Tasks, RejectPending(t)
  PROVE  Settles(t, "rejected")
  BY RuntimeAssumption DEF TypeOK, RejectPending, Settles, ackVars

LEMMA DeliverSettles ==
  ASSUME TypeOK, NEW s \in Sends, DeliverResult(s)
  PROVE  Settles(Task(s), "resolved")
  BY RuntimeAssumption DEF TypeOK, DeliverResult, Settles, ackVars, Packet, Task

LEMMA FilePromiseFiles ==
  ASSUME TypeOK, NEW s \in Sends, Mode[s] = "ack", FilePromise(s)
  PROVE  Files(s)
  BY RuntimeAssumption DEF TypeOK, FilePromise, Files, Packet, Task

LEMMA TaskType == \A s \in Sends : Task(s) \in Tasks
  BY RuntimeAssumption DEF Packet, Task

LEMMA SettlesKeepsPending ==
  ASSUME TypeOK, PendingIsWaiting, NEW t \in Tasks, NEW how, Settles(t, how)
  PROVE  PendingIsWaiting'
<1> SUFFICES ASSUME NEW x \in Tasks, pendingAcks'[x] # NoSend
             PROVE  /\ promise'[pendingAcks'[x]] = "pending"
                    /\ Task(pendingAcks'[x]) = x
                    /\ Mode[pendingAcks'[x]] = "ack"
  BY DEF PendingIsWaiting, Task, Packet
<1>1. x # t /\ pendingAcks'[x] = pendingAcks[x] /\ pendingAcks[x] \in Sends
  BY DEF Settles, TypeOK
<1>2. Task(pendingAcks[x]) = x /\ promise[pendingAcks[x]] = "pending" /\ Mode[pendingAcks[x]] = "ack"
  BY <1>1 DEF PendingIsWaiting
<1>3. pendingAcks[t] # pendingAcks[x]
  BY <1>1, <1>2 DEF PendingIsWaiting
<1>4. QED
  BY <1>1, <1>2, <1>3 DEF Settles

\* A promise filed anew finds its task's entry taken, or free: either way the
\* entry is its own afterwards, and no other entry pointed to it.
LEMMA FilesKeepsPending ==
  ASSUME TypeOK, PendingIsWaiting, NEW s \in Sends, Mode[s] = "ack", Files(s)
  PROVE  PendingIsWaiting'
<1> SUFFICES ASSUME NEW x \in Tasks, pendingAcks'[x] # NoSend
             PROVE  /\ promise'[pendingAcks'[x]] = "pending"
                    /\ Task(pendingAcks'[x]) = x
                    /\ Mode[pendingAcks'[x]] = "ack"
  BY DEF PendingIsWaiting, Task, Packet
<1>1. CASE x = Task(s)
  BY <1>1 DEF Files
<1>2. CASE x # Task(s)
  <2>1. pendingAcks'[x] = pendingAcks[x] /\ pendingAcks[x] \in Sends
    BY <1>2 DEF Files, TypeOK
  <2>2. QED
    BY <2>1 DEF Files, PendingIsWaiting
<1>3. QED
  BY <1>1, <1>2

LEMMA PendingStep == TypeOK /\ LoopInv /\ PendingIsWaiting /\ [Next]_vars => PendingIsWaiting'
<1> SUFFICES ASSUME TypeOK, LoopInv, PendingIsWaiting, [Next]_vars PROVE PendingIsWaiting'
  OBVIOUS
<1>0. UNCHANGED ackVars => PendingIsWaiting'
  BY DEF PendingIsWaiting, ackVars, Task, Packet
<1>1. ASSUME NEW s \in Sends, Submit(s) PROVE PendingIsWaiting'
  <2>1. UNCHANGED ackVars \/ FilePromise(s)
    BY <1>1 DEF Submit, NoCapableRole, Reject, Accept
  <2>2. CASE Mode[s] = "ack"
    BY <2>1, <2>2, <1>0, FilePromiseFiles, FilesKeepsPending
  <2>3. CASE Mode[s] # "ack"
    BY <2>1, <2>3, <1>0 DEF FilePromise
  <2>4. QED
    BY <2>2, <2>3
<1>2. ASSUME NEW s \in Sends, RejectPending(Task(s)) PROVE PendingIsWaiting'
  BY <1>2, TaskType, RejectPendingSettles, SettlesKeepsPending
<1>3. ASSUME NEW s \in Sends, Continue(s) PROVE PendingIsWaiting'
  BY <1>0, <1>2, <1>3 DEF Continue, TimerFires, Backoff, Retry, DeadLetter, Complete, AckReturns
<1>4. ASSUME NEW s \in Sends, DeliverResult(s) PROVE PendingIsWaiting'
  BY <1>4, TaskType, DeliverSettles, SettlesKeepsPending
<1>5. ASSUME NEW s \in Sends, Pipeline(s) PROVE PendingIsWaiting'
  BY <1>0, <1>5 DEF Pipeline, Answers, Route, Settle
<1>6. ASSUME Environment PROVE PendingIsWaiting'
  BY <1>0, <1>6 DEF Environment, RegisterRole, UnregisterRole, RemoveDeadLetter, ClearDLQ
<1>7. CASE UNCHANGED vars
  BY <1>0, <1>7 DEF vars, ackVars
<1>8. QED
  BY <1>1, <1>3, <1>4, <1>5, <1>6, <1>7 DEF Next

\* Only a promise that waits can settle.
LEMMA SettledWasWaiting ==
  ASSUME PendingIsWaiting, AckInv, NEW t \in Tasks, NEW how, Settles(t, how), NEW u \in Sends
  PROVE  promise'[u] = promise[u] \/ (Mode[u] = "ack" /\ pc[u] # "idle")
<1>1. CASE u = pendingAcks[t]
  <2>1. u # NoSend
    BY RuntimeAssumption
  <2>2. promise[u] = "pending" /\ Mode[u] = "ack"
    BY <1>1, <2>1 DEF PendingIsWaiting
  <2>3. QED
    BY <2>2 DEF AckInv
<1>2. CASE u # pendingAcks[t]
  BY <1>2 DEF Settles
<1>3. QED
  BY <1>1, <1>2

LEMMA AckStep == TypeOK /\ LoopInv /\ AckInv /\ PendingIsWaiting /\ [Next]_vars => AckInv'
<1> SUFFICES ASSUME TypeOK, LoopInv, AckInv, PendingIsWaiting, [Next]_vars PROVE AckInv'
  OBVIOUS
<1>1. ASSUME NEW s \in Sends, Submit(s) PROVE AckInv'
  BY <1>1 DEF Submit, NoCapableRole, Reject, Accept, EntersSend, FilePromise, AfterSend, AckInv,
              TypeOK, ackVars
<1>2. ASSUME NEW s \in Sends, RejectPending(Task(s))
      PROVE  \A u \in Sends : promise'[u] = promise[u] \/ (Mode[u] = "ack" /\ pc[u] # "idle")
  BY <1>2, TaskType, RejectPendingSettles, SettledWasWaiting
<1>3. ASSUME NEW s \in Sends, Continue(s) PROVE AckInv'
  <2>1. \A u \in Sends : promise'[u] = promise[u] \/ (Mode[u] = "ack" /\ pc[u] # "idle")
    <3>1. UNCHANGED ackVars \/ RejectPending(Task(s))
      BY <1>3 DEF Continue, TimerFires, Backoff, Retry, DeadLetter, Complete, AckReturns
    <3>2. QED
      BY <1>2, <3>1 DEF ackVars
  <2>2. UNCHANGED <<ran, delivered>>
    BY <1>3 DEF Continue, TimerFires, Backoff, Retry, DeadLetter, Complete, AckReturns
  <2>3. \A u \in Sends : pc'[u] = pc[u] \/ (pc'[u] # "idle" /\ (pc'[u] = "returned" => Mode[u] = "ack"))
    <3>1. \A u \in Sends : u # s => pc'[u] = pc[u]
      BY <1>3 DEF Continue, TimerFires, Backoff, Retry, DeadLetter, Complete, AckReturns, TypeOK
    <3>2. pc'[s] # "idle" /\ (pc'[s] = "returned" => Mode[s] = "ack")
      BY <1>3 DEF Continue, TimerFires, Backoff, Retry, DeadLetter, Complete, AckReturns, AfterSend, TypeOK
    <3>3. QED
      BY <3>1, <3>2
  <2>4. QED
    BY <2>1, <2>2, <2>3 DEF AckInv
<1>4. ASSUME NEW s \in Sends, DeliverResult(s) PROVE AckInv'
  <2>1. \A u \in Sends : promise'[u] = promise[u] \/ (Mode[u] = "ack" /\ pc[u] # "idle")
    BY <1>4, TaskType, DeliverSettles, SettledWasWaiting
  <2>2. QED
    BY <1>4, <2>1 DEF DeliverResult, AckInv
<1>5. ASSUME NEW s \in Sends, Pipeline(s) PROVE AckInv'
  BY <1>5 DEF Pipeline, Answers, Route, Settle, Awaited, AckInv, TypeOK, ackVars
<1>6. ASSUME Environment PROVE AckInv'
  BY <1>6 DEF Environment, RegisterRole, UnregisterRole, RemoveDeadLetter, ClearDLQ, AckInv, sendVars, ackVars
<1>7. CASE UNCHANGED vars
  BY <1>7 DEF vars, AckInv
<1>8. QED
  BY <1>1, <1>3, <1>4, <1>5, <1>6, <1>7 DEF Next

\* A call cannot touch the promise of a call that has a task of its own.
LEMMA OthersLeaveOwnTask ==
  ASSUME TypeOK, PendingIsWaiting, NEW u \in Sends, OwnTask(u), NEW s \in Sends, s # u,
         NEW how, Settles(Task(s), how) \/ Files(s)
  PROVE  promise'[u] = promise[u] /\ pendingAcks'[Task(u)] = pendingAcks[Task(u)]
<1>1. Task(s) # Task(u) /\ Task(s) \in Tasks /\ Task(u) \in Tasks
  BY TaskType DEF OwnTask
<1>2. pendingAcks[Task(s)] # u
  BY <1>1, RuntimeAssumption DEF PendingIsWaiting
<1>3. QED
  BY <1>1, <1>2 DEF Settles, Files

LEMMA PromiseStep ==
  TypeOK /\ LoopInv /\ AckInv /\ PendingIsWaiting /\ OwnPromise /\ [Next]_vars => OwnPromise'
<1> SUFFICES ASSUME TypeOK, LoopInv, AckInv, PendingIsWaiting, OwnPromise, [Next]_vars,
                    NEW u \in Sends, Mode[u] = "ack", OwnTask(u)
             PROVE  /\ promise'[u] = "pending" => pendingAcks'[Task(u)] = u
                    /\ promise'[u] = "rejected" => outcome'[u] \in Unsuccessful
                    /\ promise'[u] = "resolved" => u \in delivered'
                    /\ pc'[u] = "done" /\ outcome'[u] \in Unsuccessful => promise'[u] # "pending"
                    /\ u \in delivered' => promise'[u] # "pending"
  BY DEF OwnPromise, OwnTask, Task, Packet
<1> DEFINE Same == /\ promise'[u] = promise[u] /\ pendingAcks'[Task(u)] = pendingAcks[Task(u)]
                   /\ outcome'[u] = outcome[u] /\ pc'[u] = pc[u]
                   /\ u \in delivered' <=> u \in delivered
<1>0. /\ promise[u] = "pending" => pendingAcks[Task(u)] = u
      /\ promise[u] = "rejected" => outcome[u] \in Unsuccessful
      /\ promise[u] = "resolved" => u \in delivered
      /\ pc[u] = "done" /\ outcome[u] \in Unsuccessful => promise[u] # "pending"
      /\ u \in delivered => promise[u] # "pending"
  BY DEF OwnPromise
<1>a. Task(u) \in Tasks /\ u # NoSend
  BY TaskType, RuntimeAssumption
<1>1. CASE Same
  BY <1>0, <1>1
<1> HIDE DEF Same
<1>2. ASSUME NEW s \in Sends, Submit(s), s # u PROVE Same
  <2>1. UNCHANGED ackVars \/ FilePromise(s)
    BY <1>2 DEF Submit, NoCapableRole, Reject, Accept
  <2>2. promise'[u] = promise[u] /\ pendingAcks'[Task(u)] = pendingAcks[Task(u)]
    BY <1>2, <2>1, FilePromiseFiles, OthersLeaveOwnTask DEF FilePromise, ackVars
  <2>3. QED
    BY <1>2, <2>2 DEF Submit, NoCapableRole, Reject, Accept, Same, TypeOK
<1>3. ASSUME Submit(u)
      PROVE  /\ promise'[u] = "pending" /\ pendingAcks'[Task(u)] = u
             /\ pc'[u] # "done" /\ u \notin delivered'
  <2>1. Files(u)
    BY <1>3, FilePromiseFiles DEF Submit, NoCapableRole, Reject, Accept
  <2>2. u \notin delivered
    BY <1>3 DEF Submit, NoCapableRole, Reject, Accept, EntersSend, LoopInv, AckInv
  <2>3. QED
    BY <1>3, <1>a, <2>1, <2>2 DEF Files, Submit, NoCapableRole, Reject, Accept, AfterSend, TypeOK
<1>4. ASSUME NEW s \in Sends, Continue(s), s # u PROVE Same
  <2>1. UNCHANGED ackVars \/ RejectPending(Task(s))
    BY <1>4 DEF Continue, TimerFires, Backoff, Retry, DeadLetter, Complete, AckReturns
  <2>2. promise'[u] = promise[u] /\ pendingAcks'[Task(u)] = pendingAcks[Task(u)]
    BY <1>4, <2>1, TaskType, RejectPendingSettles, OthersLeaveOwnTask DEF ackVars
  <2>3. /\ outcome'[u] = outcome[u] /\ pc'[u] = pc[u]
        /\ u \in delivered' <=> u \in delivered
    BY <1>4 DEF Continue, TimerFires, Backoff, Retry, DeadLetter, Complete, AckReturns, TypeOK
  <2>4. QED
    BY <2>2, <2>3 DEF Same
<1>5. ASSUME RejectPending(Task(u)) PROVE promise'[u] # "pending"
                                          /\ (promise'[u] = promise[u] \/ promise'[u] = "rejected")
  BY <1>0, <1>5, <1>a, RejectPendingSettles DEF Settles
<1>6. ASSUME Continue(u)
      PROVE  /\ promise'[u] = "pending" => pendingAcks'[Task(u)] = u
             /\ promise'[u] = "rejected" => outcome'[u] \in Unsuccessful
             /\ promise'[u] = "resolved" => u \in delivered'
             /\ pc'[u] = "done" /\ outcome'[u] \in Unsuccessful => promise'[u] # "pending"
             /\ u \in delivered' => promise'[u] # "pending"
  <2>1. CASE TimerFires(u) \/ Backoff(u) \/ Retry(u)
    BY <1>0, <2>1 DEF TimerFires, Backoff, Retry, ackVars, TypeOK
  <2>2. CASE DeadLetter(u)
    <3>1. promise'[u] # "rejected"
      BY <1>0, <2>2 DEF DeadLetter, LoopInv, ackVars, Unsuccessful
    <3>2. QED
      BY <1>0, <2>2, <3>1 DEF DeadLetter, AfterSend, ackVars, TypeOK
  <2>3. CASE Complete(u)
    <3>1. promise[u] # "rejected"
      BY <1>0, <2>3 DEF Complete, LoopInv, Unsuccessful
    <3>2. CASE result[u] = "nack"
      <4>1. RejectPending(Task(u)) /\ outcome'[u] \in Unsuccessful
        BY <2>3, <3>2 DEF Complete, Unsuccessful, TypeOK
      <4>2. QED
        BY <1>0, <1>5, <2>3, <3>1, <4>1 DEF Complete
    <3>3. CASE result[u] # "nack"
      BY <1>0, <2>3, <3>1, <3>3 DEF Complete, AfterSend, ackVars, TypeOK
    <3>4. QED
      BY <3>2, <3>3
  <2>4. CASE AckReturns(u)
    <3>1. outcome'[u] = outcome[u] /\ delivered' = delivered
      BY <2>4 DEF AckReturns
    <3>2. CASE outcome[u] \in Unsuccessful
      BY <1>0, <1>5, <2>4, <3>1, <3>2 DEF AckReturns
    <3>3. CASE outcome[u] \notin Unsuccessful
      BY <1>0, <2>4, <3>1, <3>3 DEF AckReturns, ackVars
    <3>4. QED
      BY <3>2, <3>3
  <2>5. QED
    BY <1>6, <2>1, <2>2, <2>3, <2>4 DEF Continue
<1>7. ASSUME NEW s \in Sends, DeliverResult(s), s # u PROVE Same
  <2>1. promise'[u] = promise[u] /\ pendingAcks'[Task(u)] = pendingAcks[Task(u)]
    BY <1>7, DeliverSettles, OthersLeaveOwnTask
  <2>2. QED
    BY <1>7, <2>1 DEF DeliverResult, Same
<1>8. ASSUME DeliverResult(u)
      PROVE  /\ promise'[u] # "pending" /\ u \in delivered'
             /\ (promise'[u] = promise[u] \/ promise'[u] = "resolved")
             /\ outcome' = outcome
  BY <1>0, <1>8, <1>a, DeliverSettles DEF Settles, DeliverResult
<1>9. ASSUME NEW s \in Sends, Pipeline(s)
      PROVE  /\ UNCHANGED ackVars /\ UNCHANGED <<outcome, delivered>>
             /\ pc'[u] = "done" => pc[u] = "done"
  BY <1>9 DEF Pipeline, Answers, Route, Settle, TypeOK
<1>10. ASSUME Environment \/ UNCHANGED vars PROVE Same
  BY <1>10 DEF Environment, RegisterRole, UnregisterRole, RemoveDeadLetter, ClearDLQ, Same,
               vars, sendVars, ackVars
<1>11. CASE \E s \in Sends : Submit(s)
  BY <1>1, <1>2, <1>3, <1>11
<1>12. CASE \E s \in Sends : Continue(s)
  BY <1>1, <1>4, <1>6, <1>12
<1>13. CASE \E s \in Sends : DeliverResult(s)
  <2>1. CASE DeliverResult(u)
    BY <1>0, <1>8, <2>1
  <2>2. QED
    BY <1>1, <1>7, <1>13, <2>1
<1>14. CASE \E s \in Sends : Pipeline(s)
  BY <1>0, <1>9, <1>14 DEF ackVars
<1>15. QED
  BY <1>1, <1>10, <1>11, <1>12, <1>13, <1>14 DEF Next

-----------------------------------------------------------------------------
LEMMA InitInv == Init => IInv
<1> SUFFICES ASSUME Init PROVE IInv
  OBVIOUS
<1>1. TypeOK
  BY TypeInit
<1>2. LoopInv /\ AckInv /\ AttemptInv /\ AnswerOfLastAttempt
  BY RuntimeAssumption DEF Init, LoopInv, AckInv, AttemptInv, AnswerOfLastAttempt, Replies, Settlements
<1>3. PendingIsWaiting /\ OwnPromise
  BY DEF Init, PendingIsWaiting, OwnPromise
<1>4. QED
  BY <1>1, <1>2, <1>3 DEF IInv

LEMMA StepInv == IInv /\ [Next]_vars => IInv'
  BY TypeStep, LoopStep, AttemptStep, PendingStep, AckStep, PromiseStep DEF IInv, AttemptsOK

\* The retry loops, the pipelines they leave behind and the promises hang
\* together as IInv says, in every reachable state of the send path.
THEOREM Invariance == Spec => []IInv
  BY InitInv, StepInv, PTL DEF Spec

\* Every variable keeps its type.
THEOREM TypeCorrect == Spec => []TypeOK
<1>1. IInv => TypeOK
  BY DEF IInv
<1>2. QED
  BY <1>1, Invariance, PTL

\* No call answers what an attempt before its last one came to, however late
\* that one answers and whatever its layers and handlers still do.
THEOREM LastAttemptAnswers == Spec => []AnswerOfLastAttempt
<1>1. IInv => AnswerOfLastAttempt
  BY DEF IInv
<1>2. QED
  BY <1>1, Invariance, PTL

\* Whatever is filed in pendingAcks still waits.
THEOREM NothingSettlesTwice == Spec => []PendingIsWaiting
<1>1. IInv => PendingIsWaiting
  BY DEF IInv
<1>2. QED
  BY <1>1, Invariance, PTL

\* sendWithAck keeps its word to a call that shares its task with no other.
THEOREM OwnTaskOwnPromise == Spec => []OwnPromise
<1>1. IInv => OwnPromise
  BY DEF IInv
<1>2. QED
  BY <1>1, Invariance, PTL

\* Who acts on a call that has returned: nobody starts an attempt of it or
\* gives it another answer.
LEMMA ReturnedStays ==
  ASSUME TypeOK, LoopInv, [Next]_vars, NEW s \in Sends, outcome[s] # "none"
  PROVE  outcome'[s] = outcome[s] /\ attempt'[s] = attempt[s]
<1>1. pc[s] \in {"returned", "done"}
  BY DEF LoopInv
<1>2. ASSUME NEW u \in Sends,
             Submit(u) \/ Retry(u) \/ DeadLetter(u) \/ Complete(u)
      PROVE  /\ u # s
             /\ outcome' = outcome \/ outcome' = [outcome EXCEPT ![u] = outcome'[u]]
             /\ attempt' = attempt \/ attempt' = [attempt EXCEPT ![u] = attempt'[u]]
  BY <1>1, <1>2 DEF Submit, NoCapableRole, Reject, Accept, EntersSend, Retry, DeadLetter, Complete, TypeOK
<1>3. ASSUME NEW u \in Sends,
             TimerFires(u) \/ Backoff(u) \/ AckReturns(u) \/ DeliverResult(u) \/ Pipeline(u)
      PROVE  UNCHANGED <<outcome, attempt>>
  BY <1>3 DEF TimerFires, Backoff, AckReturns, DeliverResult, Pipeline, Answers, Route, Settle
<1>4. Environment \/ UNCHANGED vars => UNCHANGED <<outcome, attempt>>
  BY DEF Environment, RegisterRole, UnregisterRole, RemoveDeadLetter, ClearDLQ, sendVars, vars
<1>5. QED
  BY <1>2, <1>3, <1>4 DEF Next, Continue, TypeOK

\* A promise changes only when its call files it, or while it waits.
LEMMA SettledStays ==
  ASSUME TypeOK, AckInv, PendingIsWaiting, [Next]_vars,
         NEW s \in Sends, promise[s] \in {"resolved", "rejected"}
  PROVE  promise'[s] = promise[s]
<1>1. ASSUME NEW t \in Tasks, NEW how, Settles(t, how) PROVE promise'[s] = promise[s]
  <2>1. s # pendingAcks[t]
    BY RuntimeAssumption DEF PendingIsWaiting
  <2>2. QED
    BY <1>1, <2>1 DEF Settles
<1>2. ASSUME NEW u \in Sends, Submit(u) PROVE promise'[s] = promise[s]
  <2>1. (UNCHANGED ackVars \/ FilePromise(u)) /\ pc[u] = "idle"
    BY <1>2 DEF Submit, NoCapableRole, Reject, Accept, EntersSend
  <2>2. u # s
    BY <2>1 DEF AckInv
  <2>3. QED
    BY <2>1, <2>2, FilePromiseFiles DEF FilePromise, Files, ackVars
<1>3. ASSUME NEW u \in Sends, RejectPending(Task(u)) PROVE promise'[s] = promise[s]
  BY <1>1, <1>3, TaskType, RejectPendingSettles
<1>4. ASSUME NEW u \in Sends, DeliverResult(u) PROVE promise'[s] = promise[s]
  BY <1>1, <1>4, TaskType, DeliverSettles
<1>5. ASSUME NEW u \in Sends, Continue(u) PROVE promise'[s] = promise[s]
  BY <1>3, <1>5 DEF Continue, TimerFires, Backoff, Retry, DeadLetter, Complete, AckReturns, ackVars
<1>6. ASSUME NEW u \in Sends, Pipeline(u) PROVE promise' = promise
  BY <1>6 DEF Pipeline, Answers, Route, Settle, ackVars
<1>7. Environment \/ UNCHANGED vars => promise' = promise
  BY DEF Environment, RegisterRole, UnregisterRole, RemoveDeadLetter, ClearDLQ, ackVars, vars
<1>8. QED
  BY <1>2, <1>4, <1>5, <1>6, <1>7 DEF Next

\* What a call has answered and how its promise has settled is final, whatever
\* late attempts, other calls of its task and their handlers do.
THEOREM AnswersAreFinal == Spec => Final
<1>1. IInv /\ [Next]_vars
        => [\A s \in Sends :
              /\ outcome[s] # "none" => outcome'[s] = outcome[s] /\ attempt'[s] = attempt[s]
              /\ promise[s] \in {"resolved", "rejected"} => promise'[s] = promise[s]]_vars
  BY ReturnedStays, SettledStays DEF IInv
<1>2. QED
  BY <1>1, Invariance, PTL DEF Spec, Final

-----------------------------------------------------------------------------
\* The ledger.  Only finitely many calls have begun, so the sets it counts are
\* finite whatever Sends is.
AllBegun == {s \in Sends : pc[s] # "idle"}

Books == /\ IsFiniteSet(AllBegun)
         /\ IsFiniteSet(Retries)
         /\ Ledger

LEMMA CountOne ==
  ASSUME NEW S, IsFiniteSet(S), NEW x, x \notin S
  PROVE  Cardinality(S \cup {x}) = Cardinality(S) + 1
  BY FS_AddElement

\* A call that needed k attempts adds k - 1 retries.
LEMMA CountRetries ==
  ASSUME NEW S, IsFiniteSet(S), NEW x, NEW k \in Nat \ {0}, \A a \in 2..k : <<x, a>> \notin S
  PROVE  /\ IsFiniteSet(S \cup ({x} \X (2..k)))
         /\ Cardinality(S \cup ({x} \X (2..k))) = Cardinality(S) + (k - 1)
<1> DEFINE T == {x} \X (2..k)
           f == [a \in 2..k |-> <<x, a>>]
<1>1. IsFiniteSet(2..k) /\ Cardinality(2..k) = k - 1
  <2>1. 2 \in Int /\ k \in Int
    OBVIOUS
  <2>2. IsFiniteSet(2..k) /\ Cardinality(2..k) = IF 2 > k THEN 0 ELSE k - 2 + 1
    BY <2>1, FS_Interval, Zenon
  <2>3. QED
    BY <2>2
<1>2. f \in Bijection(2..k, T)
  <2>1. f \in [2..k -> T]
    OBVIOUS
  <2>2. \A a, b \in 2..k : f[a] = f[b] => a = b
    OBVIOUS
  <2>3. \A y \in T : \E a \in 2..k : f[a] = y
    OBVIOUS
  <2>4. QED
    BY <2>1, <2>2, <2>3 DEF Bijection, Injection, Surjection, IsInjective
<1>3. IsFiniteSet(T) /\ Cardinality(T) = k - 1
  <2>1. ExistsBijection(2..k, T)
    BY <1>2 DEF ExistsBijection
  <2>2. QED
    BY <1>1, <2>1, FS_Bijection
<1>4. S \cap T = {}
  OBVIOUS
<1>5. Cardinality(S) \in Nat /\ Cardinality({}) = 0
  BY FS_CardinalityType, FS_EmptySet
<1>6. IsFiniteSet(S \cup T) /\ Cardinality(S \cup T) = Cardinality(S) + Cardinality(T) - Cardinality(S \cap T)
  BY <1>3, FS_Union
<1>7. Cardinality(S \cap T) = 0
  BY <1>4, <1>5
<1>8. QED
  BY <1>3, <1>5, <1>6, <1>7

\* A call ends: it joins the sets of ended calls its outcome belongs to.
LEMMA Ending ==
  ASSUME TypeOK, NEW s \in Sends, NEW o \in Outcomes, outcome[s] = "none",
         outcome' = [outcome EXCEPT ![s] = o]
  PROVE  \A how : "none" \notin how =>
           /\ s \notin Ended(how)
           /\ Ended(how)' = IF o \in how THEN Ended(how) \cup {s} ELSE Ended(how)
  BY DEF TypeOK, Ended

LEMMA EndedFinite ==
  ASSUME LoopInv, IsFiniteSet(AllBegun), NEW how, "none" \notin how
  PROVE  IsFiniteSet(Ended(how)) /\ Cardinality(Ended(how)) \in Nat
<1>1. Ended(how) \in SUBSET AllBegun
  BY DEF Ended, AllBegun, LoopInv
<1>2. QED
  BY <1>1, FS_Subset, FS_CardinalityType

\* A call begins: it joins the calls that have begun.
LEMMA Beginning ==
  ASSUME TypeOK, IsFiniteSet(AllBegun), NEW s \in Sends, pc[s] = "idle", pc'[s] # "idle",
         \A u \in Sends \ {s} : pc'[u] = pc[u]
  PROVE  /\ IsFiniteSet(AllBegun')
         /\ Cardinality(Begun({"dispatch"}))' = IF Mode[s] = "dispatch"
                                                THEN Cardinality(Begun({"dispatch"})) + 1
                                                ELSE Cardinality(Begun({"dispatch"}))
<1>1. AllBegun' = AllBegun \cup {s} /\ s \notin Begun({"dispatch"})
      /\ Begun({"dispatch"}) \in SUBSET AllBegun
  BY DEF AllBegun, Begun
<1>2. IsFiniteSet(AllBegun') /\ IsFiniteSet(Begun({"dispatch"}))
  BY <1>1, FS_AddElement, FS_Subset
<1>3. CASE Mode[s] = "dispatch"
  <2>1. Begun({"dispatch"})' = Begun({"dispatch"}) \cup {s}
    BY <1>3 DEF Begun
  <2>2. QED
    BY <1>1, <1>2, <1>3, <2>1, CountOne
<1>4. CASE Mode[s] # "dispatch"
  <2>1. Begun({"dispatch"})' = Begun({"dispatch"})
    BY <1>4 DEF Begun
  <2>2. QED
    BY <1>2, <1>4, <2>1
<1>5. QED
  BY <1>3, <1>4

\* The retries of a call are counted when it ends.
LEMMA RetriesOfEnding ==
  ASSUME TypeOK, LoopInv, Books, NEW s \in Sends, pc[s] = "settled", outcome[s] = "none",
         NEW o \in Replies \cup {"deadLettered"}, outcome' = [outcome EXCEPT ![s] = o],
         attempt' = attempt
  PROVE  /\ IsFiniteSet(Retries')
         /\ Cardinality(Retries') = Cardinality(Retries) + (attempt[s] - 1)
<1>1. attempt[s] \in Nat \ {0} /\ attempt[s] <= MaxAttempts
  BY RuntimeAssumption DEF TypeOK, LoopInv
<1>2. \A a \in 2..attempt[s] : <<s, a>> \notin Retries
  BY DEF Retries, Ended, Replies
<1>3. Retries' = Retries \cup ({s} \X (2..attempt[s]))
  BY <1>1, RuntimeAssumption DEF Retries, Ended, TypeOK, Replies
<1>4. QED
  BY <1>1, <1>2, <1>3, CountRetries DEF Books

LEMMA LedgerStep == TypeOK /\ LoopInv /\ Books /\ [Next]_vars => Books'
<1> SUFFICES ASSUME TypeOK, LoopInv, Books, [Next]_vars PROVE Books'
  OBVIOUS
<1>0. /\ stats.processed \in Nat /\ stats.failed \in Nat /\ stats.retried \in Nat
      /\ stats.deadLettered \in Nat /\ stats.dispatched \in Nat
      /\ stats = [processed |-> stats.processed, failed |-> stats.failed,
                  retried |-> stats.retried, deadLettered |-> stats.deadLettered,
                  dispatched |-> stats.dispatched]
  BY DEF TypeOK, RuntimeStats
<1>1. ASSUME NEW s \in Sends, Submit(s) PROVE Books'
  <2>1. /\ IsFiniteSet(AllBegun')
        /\ Cardinality(Begun({"dispatch"}))' = Dispatched(s)
    BY <1>1, Beginning DEF Submit, NoCapableRole, Reject, Accept, EntersSend, AfterSend, Books, Ledger,
                          Dispatched, TypeOK
  <2>2. CASE Reject(s)
    <3>1. /\ stats'.processed = stats.processed /\ stats'.failed = stats.failed + 1
          /\ stats'.retried = stats.retried /\ stats'.deadLettered = stats.deadLettered
          /\ stats'.dispatched = Dispatched(s)
      BY <1>0, <2>2 DEF Reject
    <3>2. \A how : "none" \notin how =>
            /\ s \notin Ended(how)
            /\ Ended(how)' = IF "rejected" \in how THEN Ended(how) \cup {s} ELSE Ended(how)
      BY <2>2, Ending DEF Reject, EntersSend, LoopInv, Outcomes
    <3>3. Cardinality(Ended({"rejected", "deadLettered", "noRole"}))' = stats.failed + 1
      BY <3>2, EndedFinite, CountOne DEF Books, Ledger
    <3>4. /\ Ended(Replies)' = Ended(Replies)
          /\ Ended({"deadLettered"})' = Ended({"deadLettered"})
          /\ Ended(Replies \cup {"deadLettered"})' = Ended(Replies \cup {"deadLettered"})
      BY <3>2 DEF Replies
    <3>5. Retries' = Retries
      BY <2>2, <3>4 DEF Retries, Reject
    <3>6. QED
      BY <2>1, <3>1, <3>3, <3>4, <3>5 DEF Books, Ledger
  <2>3. CASE Accept(s)
    <3>1. /\ stats'.processed = stats.processed /\ stats'.failed = stats.failed
          /\ stats'.retried = stats.retried /\ stats'.deadLettered = stats.deadLettered
          /\ stats'.dispatched = Dispatched(s)
      BY <1>0, <2>3 DEF Accept
    <3>2. \A how : Ended(how)' = Ended(how)
      BY <2>3 DEF Accept, Ended
    <3>3. s \notin Ended(Replies \cup {"deadLettered"})
      BY <2>3 DEF Accept, EntersSend, Ended, LoopInv, Replies
    <3>4. \A u \in Sends \ {s} : attempt'[u] = attempt[u]
      BY <2>3 DEF Accept, TypeOK
    <3>5. Retries' = Retries
      BY <3>2, <3>3, <3>4 DEF Retries, Ended
    <3>6. QED
      BY <2>1, <3>1, <3>2, <3>5 DEF Books, Ledger
  <2>4. CASE NoCapableRole(s)
    <3>1. /\ stats'.processed = stats.processed /\ stats'.failed = stats.failed + 1
          /\ stats'.retried = stats.retried /\ stats'.deadLettered = stats.deadLettered
          /\ stats'.dispatched = stats.dispatched /\ Dispatched(s) = stats.dispatched
      BY <1>0, <2>4 DEF NoCapableRole, Dispatched
    <3>2. \A how : "none" \notin how =>
            /\ s \notin Ended(how)
            /\ Ended(how)' = IF "noRole" \in how THEN Ended(how) \cup {s} ELSE Ended(how)
      BY <2>4, Ending DEF NoCapableRole, LoopInv, Outcomes
    <3>3. Cardinality(Ended({"rejected", "deadLettered", "noRole"}))' = stats.failed + 1
      BY <3>2, EndedFinite, CountOne DEF Books, Ledger
    <3>4. /\ Ended(Replies)' = Ended(Replies)
          /\ Ended({"deadLettered"})' = Ended({"deadLettered"})
          /\ Ended(Replies \cup {"deadLettered"})' = Ended(Replies \cup {"deadLettered"})
      BY <3>2 DEF Replies
    <3>5. Retries' = Retries
      BY <2>4, <3>4 DEF Retries, NoCapableRole
    <3>6. QED
      BY <2>1, <3>1, <3>3, <3>4, <3>5 DEF Books, Ledger
  <2>5. QED
    BY <1>1, <2>2, <2>3, <2>4 DEF Submit
<1>2. ASSUME NEW s \in Sends, DeadLetter(s) PROVE Books'
  <2>1. /\ stats'.processed = stats.processed /\ stats'.failed = stats.failed + 1
        /\ stats'.retried = stats.retried + (attempt[s] - 1)
        /\ stats'.deadLettered = stats.deadLettered + 1
        /\ stats'.dispatched = stats.dispatched
    BY <1>0, <1>2 DEF DeadLetter
  <2>2. \A how : "none" \notin how =>
          /\ s \notin Ended(how)
          /\ Ended(how)' = IF "deadLettered" \in how THEN Ended(how) \cup {s} ELSE Ended(how)
    BY <1>2, Ending DEF DeadLetter, LoopInv, Outcomes
  <2>3. Cardinality(Ended({"rejected", "deadLettered", "noRole"}))' = stats.failed + 1
    BY <2>2, EndedFinite, CountOne DEF Books, Ledger
  <2>4. Cardinality(Ended({"deadLettered"}))' = stats.deadLettered + 1
    BY <2>2, EndedFinite, CountOne DEF Books, Ledger
  <2>5. Ended(Replies)' = Ended(Replies)
    BY <2>2 DEF Replies
  <2>6. IsFiniteSet(Retries') /\ Cardinality(Retries') = stats.retried + (attempt[s] - 1)
    BY <1>2, RetriesOfEnding DEF DeadLetter, LoopInv, Books, Ledger
  <2>7. AllBegun' = AllBegun /\ Begun({"dispatch"})' = Begun({"dispatch"})
    BY <1>2 DEF DeadLetter, AfterSend, AllBegun, Begun, TypeOK
  <2>8. QED
    BY <2>1, <2>3, <2>4, <2>5, <2>6, <2>7 DEF Books, Ledger
<1>3. ASSUME NEW s \in Sends, Complete(s) PROVE Books'
  <2>1. /\ stats'.processed = stats.processed + 1 /\ stats'.failed = stats.failed
        /\ stats'.retried = stats.retried + (attempt[s] - 1)
        /\ stats'.deadLettered = stats.deadLettered
        /\ stats'.dispatched = stats.dispatched
    BY <1>0, <1>3 DEF Complete
  <2>2. \A how : "none" \notin how =>
          /\ s \notin Ended(how)
          /\ Ended(how)' = IF result[s] \in how THEN Ended(how) \cup {s} ELSE Ended(how)
    BY <1>3, Ending DEF Complete, LoopInv, Outcomes
  <2>3. result[s] \in Replies /\ "none" \notin Replies
        /\ result[s] \notin {"rejected", "deadLettered", "noRole"}
    BY <1>3 DEF Complete, Replies
  <2>4. Cardinality(Ended(Replies))' = stats.processed + 1
    BY <2>2, <2>3, EndedFinite, CountOne DEF Books, Ledger
  <2>5. /\ Ended({"rejected", "deadLettered", "noRole"})' = Ended({"rejected", "deadLettered", "noRole"})
        /\ Ended({"deadLettered"})' = Ended({"deadLettered"})
    BY <2>2, <2>3
  <2>6. IsFiniteSet(Retries') /\ Cardinality(Retries') = stats.retried + (attempt[s] - 1)
    BY <1>3, RetriesOfEnding DEF Complete, LoopInv, Books, Ledger
  <2>7. AllBegun' = AllBegun /\ Begun({"dispatch"})' = Begun({"dispatch"})
    BY <1>3 DEF Complete, AfterSend, AllBegun, Begun, TypeOK
  <2>8. QED
    BY <2>1, <2>4, <2>5, <2>6, <2>7 DEF Books, Ledger
<1>4. ASSUME UNCHANGED <<stats, outcome>>,
             \A s \in Sends : /\ pc'[s] = "idle" <=> pc[s] = "idle"
                              /\ outcome[s] # "none" => attempt'[s] = attempt[s]
      PROVE  Books'
  <2>1. /\ \A how : Ended(how)' = Ended(how) /\ Begun(how)' = Begun(how)
        /\ AllBegun' = AllBegun
    BY <1>4 DEF Ended, Begun, AllBegun
  <2>2. Retries' = Retries
    BY <1>4, <2>1 DEF Retries, Ended, Replies
  <2>3. QED
    BY <1>4, <2>1, <2>2 DEF Books, Ledger
<1>5. ASSUME NEW s \in Sends, TimerFires(s) \/ Backoff(s) \/ Retry(s) \/ AckReturns(s) PROVE Books'
  BY <1>4, <1>5 DEF TimerFires, Backoff, Retry, AckReturns, LoopInv, TypeOK
<1>6. ASSUME NEW s \in Sends, Pipeline(s) PROVE Books'
  BY <1>4, <1>6 DEF Pipeline, Answers, Route, Settle, Awaited, TypeOK
<1>7. ASSUME NEW s \in Sends, DeliverResult(s) PROVE Books'
  BY <1>4, <1>7 DEF DeliverResult
<1>8. ASSUME Environment PROVE Books'
  BY <1>4, <1>8 DEF Environment, RegisterRole, UnregisterRole, RemoveDeadLetter, ClearDLQ, sendVars
<1>9. CASE UNCHANGED vars
  BY <1>4, <1>9 DEF vars
<1>10. QED
  BY <1>1, <1>2, <1>3, <1>5, <1>6, <1>7, <1>8, <1>9 DEF Next, Continue

LEMMA BooksInit == Init => Books
<1> SUFFICES ASSUME Init PROVE Books
  OBVIOUS
<1>1. /\ \A how : "none" \notin how => Ended(how) = {}
      /\ Begun({"dispatch"}) = {} /\ AllBegun = {}
  BY DEF Init, Ended, Begun, AllBegun
<1>2. Retries = {}
  BY <1>1 DEF Retries, Replies
<1>3. QED
  BY <1>1, <1>2, FS_EmptySet DEF Books, Ledger, Init, Replies

LEMMA BooksInvariant == Spec => []Books
<1>1. IInv /\ Books /\ [Next]_vars => Books'
  BY LedgerStep DEF IInv
<1>2. QED
  BY <1>1, BooksInit, Invariance, PTL DEF Spec

\* The statistics are exact, whatever the calls are and however they overlap.
THEOREM LedgerIsExact == Spec => []Ledger
<1>1. Books => Ledger
  BY DEF Books
<1>2. QED
  BY <1>1, BooksInvariant, PTL

-----------------------------------------------------------------------------
\* A step that dead-letters nothing and only moves letters out of the queue.
LEMMA LettersStay ==
  ASSUME DeadLettersKept, TypeOK, UNCHANGED dlqStore,
         Ended({"deadLettered"})' = Ended({"deadLettered"}),
         \A p \in Packets : /\ dlq'[p] + dropped'[p] = dlq[p] + dropped[p]
                            /\ dlq'[p] \in Nat /\ dlq'[p] <= dlq[p]
  PROVE  DeadLettersKept'
<1>1. \A p \in Packets : DeadLettersOf(p)' = DeadLettersOf(p)
  BY DEF DeadLettersOf
<1>2. \A p \in Packets : dlq[p] <= 1 => dlq'[p] <= 1
  <2>1. \A p \in Packets : dlq[p] \in Nat /\ dlq[p] + dropped[p] \in Nat
    BY DEF TypeOK
  <2>2. QED
    BY <2>1
<1>3. QED
  BY <1>1, <1>2 DEF DeadLettersKept

\* One letter more, in the store's own way of pushing it.
LEMMA LetterPushed ==
  ASSUME TypeOK, LoopInv, Books, DeadLettersKept, NEW s \in Sends, DeadLetter(s)
  PROVE  DeadLettersKept'
<1> DEFINE q == Packet(s)
<1>1. q \in Packets /\ \A p \in Packets : dlq[p] \in Nat /\ dropped[p] \in Nat
  BY RuntimeAssumption DEF Packet, TypeOK
<1>2. /\ dlq' = [dlq EXCEPT ![q] = Pushed(q)]
      /\ UNCHANGED <<dlqStore, dropped>>
  BY DEF DeadLetter
<1>3. /\ s \notin Ended({"deadLettered"})
      /\ Ended({"deadLettered"})' = Ended({"deadLettered"}) \cup {s}
  BY Ending DEF DeadLetter, LoopInv, Outcomes
<1>4. IsFiniteSet(Ended({"deadLettered"}))
  BY EndedFinite DEF Books
<1>5. \A p \in Packets : IsFiniteSet(DeadLettersOf(p)) /\ Cardinality(DeadLettersOf(p)) \in Nat
  <2>1. \A p \in Packets : DeadLettersOf(p) \in SUBSET Ended({"deadLettered"})
    BY DEF DeadLettersOf
  <2>2. QED
    BY <1>4, <2>1, FS_Subset, FS_CardinalityType
<1>6. /\ \A p \in Packets : p # q => DeadLettersOf(p)' = DeadLettersOf(p)
      /\ DeadLettersOf(q)' = DeadLettersOf(q) \cup {s}
      /\ s \notin DeadLettersOf(q)
  BY <1>3 DEF DeadLettersOf
<1>7. Cardinality(DeadLettersOf(q)') = Cardinality(DeadLettersOf(q)) + 1
  BY <1>1, <1>5, <1>6, CountOne
<1>8. /\ \A p \in Packets : p # q => dlq'[p] = dlq[p]
      /\ dlq'[q] = IF dlqStore = "memory" THEN 1 ELSE dlq[q] + 1
  BY <1>1, <1>2 DEF TypeOK, Pushed, MemoryPush, SqlitePush
<1>9. DeadLettersOf(q) = {} => Cardinality(DeadLettersOf(q)) = 0
  BY FS_EmptySet
<1> HIDE DEF q
<1>10. CASE dlqStore = "memory"
  <2>1. DeadLettersOf(q)' # {}
    BY <1>6
  <2>2. dlq'[q] <= 1 /\ dlq'[q] + dropped'[q] \in 1..Cardinality(DeadLettersOf(q)')
    <3>1. dropped[q] <= Cardinality(DeadLettersOf(q))
      BY <1>1, <1>5, <1>9, <1>10 DEF DeadLettersKept
    <3>2. QED
      BY <1>1, <1>2, <1>5, <1>7, <1>8, <1>10, <3>1
  <2>3. \A p \in Packets : p # q =>
          /\ dlq'[p] <= 1
          /\ DeadLettersOf(p)' # {} => dlq'[p] + dropped'[p] \in 1..Cardinality(DeadLettersOf(p)')
          /\ DeadLettersOf(p)' = {} => dlq'[p] + dropped'[p] = 0
    BY <1>2, <1>6, <1>8, <1>10 DEF DeadLettersKept
  <2>4. QED
    BY <1>2, <1>10, <2>1, <2>2, <2>3 DEF DeadLettersKept
<1>11. CASE dlqStore # "memory"
  <2>1. dlq'[q] + dropped'[q] = Cardinality(DeadLettersOf(q)')
    <3>1. dlq[q] + dropped[q] = Cardinality(DeadLettersOf(q))
      BY <1>1, <1>11 DEF DeadLettersKept
    <3>2. QED
      BY <1>1, <1>2, <1>5, <1>7, <1>8, <1>11, <3>1
  <2>2. \A p \in Packets : p # q => dlq'[p] + dropped'[p] = Cardinality(DeadLettersOf(p)')
    BY <1>2, <1>6, <1>8, <1>11 DEF DeadLettersKept
  <2>3. QED
    BY <1>2, <1>11, <2>1, <2>2 DEF DeadLettersKept
<1>12. QED
  BY <1>10, <1>11

LEMMA LettersStep == TypeOK /\ LoopInv /\ Books /\ DeadLettersKept /\ [Next]_vars => DeadLettersKept'
<1> SUFFICES ASSUME TypeOK, LoopInv, Books, DeadLettersKept, [Next]_vars PROVE DeadLettersKept'
  OBVIOUS
<1>1. ASSUME UNCHANGED dlqVars, Ended({"deadLettered"})' = Ended({"deadLettered"})
      PROVE  DeadLettersKept'
  BY <1>1, LettersStay DEF dlqVars, TypeOK
<1>2. ASSUME NEW s \in Sends, Submit(s) PROVE DeadLettersKept'
  <2>1. UNCHANGED dlqVars
    BY <1>2 DEF Submit, NoCapableRole, Reject, Accept
  <2>2. CASE Reject(s) \/ NoCapableRole(s)
    BY <1>1, <2>1, <2>2, Ending DEF Reject, NoCapableRole, EntersSend, LoopInv, Outcomes
  <2>3. CASE Accept(s)
    BY <1>1, <2>1, <2>3 DEF Accept, Ended
  <2>4. QED
    BY <1>2, <2>2, <2>3 DEF Submit
<1>3. ASSUME NEW s \in Sends, Complete(s) PROVE DeadLettersKept'
  <2>1. result[s] \in Outcomes /\ result[s] # "deadLettered" /\ outcome[s] = "none"
    BY <1>3 DEF Complete, Replies, Outcomes, LoopInv
  <2>2. QED
    BY <1>1, <1>3, <2>1, Ending DEF Complete
<1>4. ASSUME NEW s \in Sends,
             TimerFires(s) \/ Backoff(s) \/ Retry(s) \/ AckReturns(s) \/ Pipeline(s) \/ DeliverResult(s)
      PROVE  DeadLettersKept'
  BY <1>1, <1>4 DEF TimerFires, Backoff, Retry, AckReturns, Pipeline, Answers, Route, Settle, Awaited, DeliverResult, Ended
<1>5. ASSUME NEW p \in Packets, RemoveDeadLetter(p) PROVE DeadLettersKept'
  <2>1. /\ dlq[p] > 0
        /\ dlq' = [dlq EXCEPT ![p] = @ - 1]
        /\ dropped' = [dropped EXCEPT ![p] = @ + 1]
        /\ UNCHANGED <<dlqStore, outcome>>
    BY <1>5 DEF RemoveDeadLetter, sendVars
  <2>2. \A r \in Packets : dlq[r] \in Nat /\ dropped[r] \in Nat
    BY DEF TypeOK
  <2>3. \A r \in Packets : /\ dlq'[r] + dropped'[r] = dlq[r] + dropped[r]
                           /\ dlq'[r] \in Nat /\ dlq'[r] <= dlq[r]
    BY <2>1, <2>2 DEF TypeOK
  <2>4. QED
    BY <2>1, <2>3, LettersStay DEF Ended
<1>6. ASSUME ClearDLQ PROVE DeadLettersKept'
  <2>1. /\ dlq' = [p \in Packets |-> 0]
        /\ dropped' = [p \in Packets |-> dropped[p] + dlq[p]]
        /\ UNCHANGED <<dlqStore, outcome>>
    BY <1>6 DEF ClearDLQ, sendVars
  <2>2. \A r \in Packets : dlq[r] \in Nat /\ dropped[r] \in Nat
    BY DEF TypeOK
  <2>3. \A r \in Packets : /\ dlq'[r] + dropped'[r] = dlq[r] + dropped[r]
                           /\ dlq'[r] \in Nat /\ dlq'[r] <= dlq[r]
    BY <2>1, <2>2
  <2>4. QED
    BY <2>1, <2>3, LettersStay DEF Ended
<1>7. ASSUME NEW r \in Roles, UnregisterRole(r) \/ \E how \in {"accepting", "refusing"} : RegisterRole(r, how)
      PROVE  DeadLettersKept'
  BY <1>1, <1>7 DEF UnregisterRole, RegisterRole, sendVars, Ended
<1>8. CASE UNCHANGED vars
  BY <1>1, <1>8 DEF vars, dlqVars, Ended
<1>9. ASSUME NEW s \in Sends, DeadLetter(s) PROVE DeadLettersKept'
  BY <1>9, LetterPushed
<1>10. QED
  BY <1>2, <1>3, <1>4, <1>5, <1>6, <1>7, <1>8, <1>9 DEF Next, Continue, Environment

\* No dead letter is lost and none is made up, in either store, whatever calls
\* fail on the same packet while the operator empties the queue.
THEOREM DeadLettersAreKept == Spec => []DeadLettersKept
<1>1. Init => DeadLettersKept
  <2> SUFFICES ASSUME Init PROVE DeadLettersKept
    OBVIOUS
  <2>1. \A p \in Packets : DeadLettersOf(p) = {} /\ dlq[p] = 0 /\ dropped[p] = 0
    BY DEF Init, DeadLettersOf, Ended
  <2>2. QED
    BY <2>1, FS_EmptySet DEF DeadLettersKept
<1>2. IInv /\ Books /\ DeadLettersKept /\ [Next]_vars => DeadLettersKept'
  BY LettersStep DEF IInv
<1>3. QED
  BY <1>1, <1>2, BooksInvariant, Invariance, PTL DEF Spec

-----------------------------------------------------------------------------
\* The refinement.  A step moves the stage of the call that takes it, or of none.
Stages == [s \in Sends |-> Stage(s)]

LEMMA SameStages ==
  ASSUME UNCHANGED outcome, \A s \in Sends : pc'[s] = "idle" <=> pc[s] = "idle"
  PROVE  Stages' = Stages
  BY DEF Stages, Stage

LEMMA StepRefines == TypeOK /\ LoopInv /\ [Next]_vars => [Contract!Next]_(Contract!vars)
<1> SUFFICES ASSUME TypeOK, LoopInv, [Next]_vars PROVE [Contract!Next]_(Contract!vars)
  OBVIOUS
<1> USE DEF Stages
<1>0. stats.processed \in Nat /\ stats.failed \in Nat /\ stats.deadLettered \in Nat
  BY DEF TypeOK, RuntimeStats
<1>1. ASSUME NEW s \in Sends, NEW to,
             \A u \in Sends : Stage(u)' = IF u = s THEN to ELSE Stage(u)
      PROVE  Stages' = [Stages EXCEPT ![s] = to]
  BY <1>1
<1>2. ASSUME NEW s \in Sends, Reject(s) \/ NoCapableRole(s) PROVE Contract!Refuse(s)
  <2>1. Stage(s) = "idle"
    BY <1>2 DEF Reject, NoCapableRole, EntersSend, Stage, LoopInv
  <2>2. Stages' = [Stages EXCEPT ![s] = "refused"]
    BY <1>1, <1>2 DEF Reject, NoCapableRole, AfterSend, Stage, TypeOK
  <2>3. stats'.failed = stats.failed + 1 /\ stats'.processed = stats.processed
        /\ stats'.deadLettered = stats.deadLettered
    BY <1>2 DEF Reject, NoCapableRole, TypeOK, RuntimeStats
  <2>4. QED
    BY <2>1, <2>2, <2>3 DEF Contract!Refuse, Contract!Advance
<1>3. ASSUME NEW s \in Sends, Accept(s) PROVE Contract!Admit(s)
  <2>1. Stage(s) = "idle"
    BY <1>3 DEF Accept, EntersSend, Stage, LoopInv
  <2>2. Stages' = [Stages EXCEPT ![s] = "open"]
    BY <1>1, <1>3 DEF Accept, EntersSend, Stage, TypeOK, LoopInv
  <2>3. stats'.failed = stats.failed /\ stats'.processed = stats.processed
        /\ stats'.deadLettered = stats.deadLettered
    BY <1>3 DEF Accept, TypeOK, RuntimeStats
  <2>4. QED
    BY <2>1, <2>2, <2>3 DEF Contract!Admit, Contract!Advance
<1>4. ASSUME NEW s \in Sends, DeadLetter(s) PROVE Contract!Fail(s)
  <2>1. Stage(s) = "open"
    BY <1>4 DEF DeadLetter, Stage, LoopInv
  <2>2. Stages' = [Stages EXCEPT ![s] = "failed"]
    BY <1>1, <1>4 DEF DeadLetter, AfterSend, Stage, TypeOK
  <2>3. stats'.failed = stats.failed + 1 /\ stats'.processed = stats.processed
        /\ stats'.deadLettered = stats.deadLettered + 1
    BY <1>4 DEF DeadLetter, TypeOK, RuntimeStats
  <2>4. QED
    BY <2>1, <2>2, <2>3 DEF Contract!Fail, Contract!Advance
<1>5. ASSUME NEW s \in Sends, Complete(s) PROVE Contract!Answer(s)
  <2>1. Stage(s) = "open"
    BY <1>5 DEF Complete, Stage, LoopInv
  <2>2. Stages' = [Stages EXCEPT ![s] = "answered"]
    BY <1>1, <1>5 DEF Complete, AfterSend, Stage, TypeOK, Replies
  <2>3. stats'.failed = stats.failed /\ stats'.processed = stats.processed + 1
        /\ stats'.deadLettered = stats.deadLettered
    BY <1>5 DEF Complete, TypeOK, RuntimeStats
  <2>4. QED
    BY <2>1, <2>2, <2>3 DEF Contract!Answer, Contract!Advance
<1>6. ASSUME UNCHANGED <<outcome, stats>>, \A s \in Sends : pc'[s] = "idle" <=> pc[s] = "idle"
      PROVE  UNCHANGED Contract!vars
  BY <1>6, SameStages DEF Contract!vars
<1>7. ASSUME NEW s \in Sends, TimerFires(s) \/ Backoff(s) \/ Retry(s) \/ AckReturns(s)
      PROVE  UNCHANGED Contract!vars
  BY <1>6, <1>7 DEF TimerFires, Backoff, Retry, AckReturns, TypeOK
<1>8. ASSUME NEW s \in Sends, Pipeline(s) PROVE UNCHANGED Contract!vars
  BY <1>6, <1>8 DEF Pipeline, Answers, Route, Settle, Awaited, TypeOK
<1>9. ASSUME NEW s \in Sends, DeliverResult(s) PROVE UNCHANGED Contract!vars
  BY <1>6, <1>9 DEF DeliverResult
<1>10. ASSUME Environment PROVE UNCHANGED Contract!vars
  BY <1>6, <1>10 DEF Environment, RegisterRole, UnregisterRole, RemoveDeadLetter, ClearDLQ, sendVars
<1>11. CASE UNCHANGED vars
  BY <1>6, <1>11 DEF vars
<1>12. QED
  BY <1>2, <1>3, <1>4, <1>5, <1>7, <1>8, <1>9, <1>10, <1>11
     DEF Next, Submit, Continue, Contract!Next, Contract!End

\* The send path implements SendContract: every call is refused, answered or
\* failed once and for good, and is counted accordingly when that happens.
THEOREM SendPathKeepsContract == Spec => KeepsContract
<1>1. Init => Contract!Init
  BY DEF Init, Contract!Init, Stage
<1>2. IInv /\ [Next]_vars => [Contract!Next]_(Contract!vars)
  BY StepRefines DEF IInv
<1>3. QED
  BY <1>1, <1>2, Invariance, PTL DEF Spec, KeepsContract, Contract!Spec

-----------------------------------------------------------------------------
(***************************************************************************)
(* Liveness.  tlapm knows nothing of ENABLED, so the fairness of Runtime's *)
(* LiveSpec is spelled with the guards of the actions: what the runtime,   *)
(* or the pipeline of a call, can do for ever is done again and again.     *)
(***************************************************************************)

CanContinue(s) ==
  \/ pc[s] \in {"settled", "backoff", "returned"}
  \/ pc[s] = "awaiting" /\ Packet(s) \in HasTimeout

Served(s) == []<>~CanContinue(s) \/ []<><<Continue(s)>>_vars

ServedSpec == Spec /\ \A s \in Sends : Served(s)

\* Some attempt of the call has not answered.
Waiting(s) == \E a \in 1..MaxAttempts : pipeline[s][a] = "open"

AnsweredSpec ==
  /\ ServedSpec
  /\ \A s \in {u \in Sends : Packet(u) \notin HasTimeout} :
       []<>~Waiting(s) \/ []<><<Answers(s)>>_vars

\* True of every behaviour: a bounded number that never falls changes only
\* finitely often.  (It takes induction over the number to prove, which tlapm
\* cannot do with temporal formulas.)
AttemptsRunOut(s) ==
  [](attempt[s] \in 0..MaxAttempts) /\ [][attempt'[s] >= attempt[s]]_vars
    => <>[][attempt'[s] = attempt[s]]_vars

\* What any step leaves of the place of a call in the retry loop.
LEMMA LoopMoves ==
  ASSUME IInv, [Next]_vars, NEW s \in Sends
  PROVE  /\ attempt'[s] >= attempt[s]
         /\ pc[s] = "awaiting" => pc'[s] \in {"awaiting", "settled"}
         /\ pc[s] = "settled" => pc'[s] \in {"settled", "backoff", "returned", "done"}
         /\ pc[s] = "backoff" => \/ pc'[s] = "backoff"
                                 \/ pc'[s] = "awaiting" /\ attempt'[s] # attempt[s]
         /\ pc[s] = "returned" => pc'[s] \in {"returned", "done"}
         /\ pc[s] = "done" => pc'[s] = "done"
<1> DEFINE Goal == /\ attempt'[s] >= attempt[s]
                   /\ pc[s] = "awaiting" => pc'[s] \in {"awaiting", "settled"}
                   /\ pc[s] = "settled" => pc'[s] \in {"settled", "backoff", "returned", "done"}
                   /\ pc[s] = "backoff" => \/ pc'[s] = "backoff"
                                           \/ pc'[s] = "awaiting" /\ attempt'[s] # attempt[s]
                   /\ pc[s] = "returned" => pc'[s] \in {"returned", "done"}
                   /\ pc[s] = "done" => pc'[s] = "done"
<1>0. /\ pc \in [Sends -> {"idle", "awaiting", "settled", "backoff", "returned", "done"}]
      /\ attempt \in [Sends -> 0..MaxAttempts]
      /\ MaxAttempts \in Nat
      /\ \A u \in Sends : pc[u] = "idle" => attempt[u] = 0
  BY RuntimeAssumption DEF IInv, TypeOK, LoopInv
<1>1. ASSUME NEW u \in Sends, Submit(u) PROVE Goal
  BY <1>0, <1>1 DEF Submit, NoCapableRole, Reject, Accept, EntersSend, AfterSend
<1>2. ASSUME NEW u \in Sends, TimerFires(u) \/ Backoff(u) PROVE Goal
  BY <1>0, <1>2 DEF TimerFires, Backoff
<1>3. ASSUME NEW u \in Sends, Retry(u) PROVE Goal
  BY <1>0, <1>3 DEF Retry
<1>4. ASSUME NEW u \in Sends, DeadLetter(u) \/ Complete(u) PROVE Goal
  BY <1>0, <1>4 DEF DeadLetter, Complete, AfterSend
<1>5. ASSUME NEW u \in Sends, AckReturns(u) PROVE Goal
  BY <1>0, <1>5 DEF AckReturns
<1>6. ASSUME NEW u \in Sends, Pipeline(u) PROVE Goal
  BY <1>0, <1>6 DEF Pipeline, Answers, Route, Settle, Awaited
<1>7. ASSUME NEW u \in Sends, DeliverResult(u) PROVE Goal
  BY <1>0, <1>7 DEF DeliverResult
<1>8. CASE Environment \/ UNCHANGED vars
  BY <1>0, <1>8 DEF Environment, RegisterRole, UnregisterRole, RemoveDeadLetter, ClearDLQ, sendVars, vars
<1> QED
  BY <1>1, <1>2, <1>3, <1>4, <1>5, <1>6, <1>7, <1>8 DEF Next, Continue

\* A step of the runtime for call s takes it on, from wherever it stands.
LEMMA ContinueMoves ==
  ASSUME IInv, NEW s \in Sends, Continue(s)
  PROVE  /\ pc[s] = "awaiting" => pc'[s] = "settled"
         /\ pc[s] = "settled" => pc'[s] \in {"backoff", "returned", "done"}
         /\ pc[s] = "backoff" => attempt'[s] # attempt[s]
         /\ pc[s] = "returned" => pc'[s] = "done"
<1>0. /\ pc \in [Sends -> {"idle", "awaiting", "settled", "backoff", "returned", "done"}]
      /\ attempt \in [Sends -> 0..MaxAttempts]
      /\ MaxAttempts \in Nat
  BY RuntimeAssumption DEF IInv, TypeOK
<1>1. CASE TimerFires(s) \/ Backoff(s) \/ AckReturns(s)
  BY <1>0, <1>1 DEF TimerFires, Backoff, AckReturns
<1>2. CASE Retry(s)
  BY <1>0, <1>2 DEF Retry
<1>3. CASE DeadLetter(s) \/ Complete(s)
  BY <1>0, <1>3 DEF DeadLetter, Complete, AfterSend
<1> QED
  BY <1>1, <1>2, <1>3 DEF Continue

\* The attempts of a call stop growing.
LEMMA AttemptsStop ==
  ASSUME NEW s \in Sends
  PROVE  Spec /\ AttemptsRunOut(s) => <>[][attempt'[s] = attempt[s]]_vars
<1>1. IInv => attempt[s] \in 0..MaxAttempts
  BY DEF IInv, TypeOK
<1>2. IInv /\ [Next]_vars => [attempt'[s] >= attempt[s]]_vars
  BY LoopMoves
<1> QED
  BY <1>1, <1>2, Invariance, PTL DEF Spec, AttemptsRunOut

\* The rest of a call once it is not awaiting, and never again will.
LEMMA CallReturns ==
  ASSUME NEW s \in Sends
  PROVE  Spec /\ Served(s) /\ <>[][attempt'[s] = attempt[s]]_vars
           /\ (pc[s] = "awaiting" ~> pc[s] = "settled")
           => (pc[s] \notin {"idle", "done"} ~> pc[s] = "done")
<1> DEFINE A == pc[s] = "awaiting"
           S == pc[s] = "settled"
           B == pc[s] = "backoff"
           R == pc[s] = "returned"
           D == pc[s] = "done"
           Open == pc[s] \notin {"idle", "done"}
           Can == CanContinue(s)
<1>1. IInv => (Open <=> A \/ S \/ B \/ R)
  BY DEF IInv, TypeOK
<1>2. S \/ B \/ R => Can
  BY DEF CanContinue
<1>3. IInv /\ [Next]_vars /\ S => S' \/ B' \/ R' \/ D'
  BY LoopMoves
<1>4. IInv /\ [Next]_vars /\ [attempt'[s] = attempt[s]]_vars /\ B => B'
  BY LoopMoves DEF vars
<1>5. IInv /\ [Next]_vars /\ R => R' \/ D'
  BY LoopMoves
<1>6. IInv /\ <<Continue(s)>>_vars /\ S => B' \/ R' \/ D'
  BY ContinueMoves
<1>7. IInv /\ <<Continue(s)>>_vars /\ [attempt'[s] = attempt[s]]_vars => ~B
  BY ContinueMoves
<1>8. IInv /\ <<Continue(s)>>_vars /\ R => D'
  BY ContinueMoves
<1>9. Served(s) <=> []<>~Can \/ []<><<Continue(s)>>_vars
  BY DEF Served
<1>10. IInv /\ [Next]_vars /\ Open => Open' \/ D'
  BY LoopMoves DEF IInv, TypeOK
<1> HIDE DEF A, S, B, R, D, Open, Can
<1>11. Spec /\ Served(s) /\ <>[][attempt'[s] = attempt[s]]_vars /\ (A ~> S) => (Open ~> D)
  BY <1>1, <1>2, <1>3, <1>4, <1>5, <1>6, <1>7, <1>8, <1>9, <1>10, Invariance, PTL DEF Spec
<1> QED
  BY <1>11 DEF A, S, D, Open

\* A call with timeoutMs does not wait for its pipeline.
LEMMA TimerEndsWait ==
  ASSUME NEW s \in Sends, Packet(s) \in HasTimeout
  PROVE  Spec /\ Served(s) => (pc[s] = "awaiting" ~> pc[s] = "settled")
<1> DEFINE A == pc[s] = "awaiting"
           S == pc[s] = "settled"
           Can == CanContinue(s)
<1>1. A => Can
  BY DEF CanContinue
<1>2. IInv /\ [Next]_vars /\ A => A' \/ S'
  BY LoopMoves
<1>3. IInv /\ <<Continue(s)>>_vars /\ A => S'
  BY ContinueMoves
<1>4. Served(s) <=> []<>~Can \/ []<><<Continue(s)>>_vars
  BY DEF Served
<1> HIDE DEF Can
<1> QED
  BY <1>1, <1>2, <1>3, <1>4, Invariance, PTL DEF Spec

\* Only the awaited attempt of a call without timeoutMs can still answer.
LEMMA AnswerEnds ==
  ASSUME IInv, NEW s \in Sends, Packet(s) \notin HasTimeout, pc[s] = "awaiting", Answers(s)
  PROVE  pc'[s] = "settled"
<1>1. /\ pc \in [Sends -> {"idle", "awaiting", "settled", "backoff", "returned", "done"}]
      /\ attempt \in [Sends -> 0..MaxAttempts]
      /\ MaxAttempts \in Nat
  BY RuntimeAssumption DEF IInv, TypeOK
<1>2. ASSUME NEW a \in 1..MaxAttempts, pipeline[s][a] = "open"
      PROVE  a = attempt[s]
  <2>1. ~(a > attempt[s])
    BY <1>2 DEF IInv, LoopInv
  <2>2. ~(a < attempt[s])
    BY <1>2 DEF IInv, AnswerOfLastAttempt
  <2> QED
    BY <1>1, <2>1, <2>2
<1>3. PICK a \in 1..MaxAttempts, r \in Settlements : Settle(s, a, r)
  BY DEF Answers
<1>4. a = attempt[s]
  BY <1>2, <1>3 DEF Settle
<1> QED
  BY <1>1, <1>3, <1>4 DEF Settle, Awaited

\* A call without timeoutMs waits for its pipeline no longer than that takes.
LEMMA AnswerEndsWait ==
  ASSUME NEW s \in Sends, Packet(s) \notin HasTimeout
  PROVE  Spec /\ ([]<>~Waiting(s) \/ []<><<Answers(s)>>_vars)
           => (pc[s] = "awaiting" ~> pc[s] = "settled")
<1> DEFINE A == pc[s] = "awaiting"
           S == pc[s] = "settled"
           W == Waiting(s)
<1>1. IInv /\ A => W
  <2> SUFFICES ASSUME IInv, A PROVE W
    OBVIOUS
  <2>1. attempt[s] \in 1..MaxAttempts /\ pipeline[s][attempt[s]] = "open"
    BY RuntimeAssumption DEF IInv, TypeOK, LoopInv, AttemptInv
  <2> QED
    BY <2>1 DEF Waiting
<1>2. IInv /\ [Next]_vars /\ A => A' \/ S'
  BY LoopMoves
<1>3. IInv /\ <<Answers(s)>>_vars /\ A => S'
  BY AnswerEnds
<1> HIDE DEF A, S, W
<1>4. Spec /\ ([]<>~W \/ []<><<Answers(s)>>_vars) => (A ~> S)
  BY <1>1, <1>2, <1>3, Invariance, PTL DEF Spec
<1> QED
  BY <1>4 DEF A, S, W

\* A call that was admitted is neither idle nor refused thereafter.
LEMMA StageMoves ==
  ASSUME IInv, [Next]_vars, NEW s \in Sends, Stage(s) = "open"
  PROVE  Stage(s)' = "open" \/ Stage(s)' \in {"answered", "failed"}
<1>1. [Contract!Next]_(Contract!vars)
  BY StepRefines DEF IInv
<1>2. ASSUME NEW u \in Sends, Contract!Refuse(u) \/ Contract!Admit(u) \/ Contract!End(u)
      PROVE  Stage(s)' = "open" \/ Stage(s)' \in {"answered", "failed"}
  <2>1. PICK from \in {"idle", "open"}, to \in {"refused", "open", "answered", "failed"} :
          /\ Contract!Advance(u, from, to)
          /\ from = "open" => to \in {"answered", "failed"}
    BY <1>2 DEF Contract!Refuse, Contract!Admit, Contract!End, Contract!Answer, Contract!Fail
  <2>2. Stages[u] = from /\ Stages' = [Stages EXCEPT ![u] = to]
    BY <2>1 DEF Contract!Advance, Stages
  <2>3. Stage(s)' = Stages'[s] /\ Stage(s) = Stages[s] /\ Stage(u) = Stages[u]
    BY DEF Stages
  <2> QED
    BY <2>1, <2>2, <2>3 DEF Stages
<1>3. ASSUME UNCHANGED Contract!vars
      PROVE  Stage(s)' = "open"
  <2>1. Stages' = Stages
    BY <1>3 DEF Contract!vars, Stages
  <2>2. Stage(s)' = Stages'[s] /\ Stage(s) = Stages[s]
    BY DEF Stages
  <2> QED
    BY <2>1, <2>2
<1> QED
  BY <1>1, <1>2, <1>3 DEF Contract!Next

\* timeoutMs bounds a call whatever its handlers and middleware do.
THEOREM TimeoutsBound ==
  ServedSpec /\ (\A s \in Sends : AttemptsRunOut(s)) => TimeoutBoundsCall
<1>1. ASSUME NEW s \in Sends, Packet(s) \in HasTimeout
      PROVE  ServedSpec /\ AttemptsRunOut(s) => (pc[s] \notin {"idle", "done"} ~> pc[s] = "done")
  <2>1. ServedSpec => Spec /\ Served(s)
    BY DEF ServedSpec
  <2>2. Spec /\ AttemptsRunOut(s) => <>[][attempt'[s] = attempt[s]]_vars
    BY AttemptsStop
  <2>3. Spec /\ Served(s) => (pc[s] = "awaiting" ~> pc[s] = "settled")
    BY <1>1, TimerEndsWait
  <2>4. Spec /\ Served(s) /\ <>[][attempt'[s] = attempt[s]]_vars
          /\ (pc[s] = "awaiting" ~> pc[s] = "settled")
          => (pc[s] \notin {"idle", "done"} ~> pc[s] = "done")
    BY CallReturns
  <2> QED
    BY <2>1, <2>2, <2>3, <2>4, PTL
<1> QED
  BY <1>1 DEF TimeoutBoundsCall

\* The liveness half of FulfilsContract: the contract owes every call it admits
\* an answer or a failure, and the send path gives it one.
THEOREM AdmittedCallsEnd ==
  AnsweredSpec /\ (\A s \in Sends : AttemptsRunOut(s))
    => \A s \in Sends : Stage(s) = "open" ~> Stage(s) \in {"answered", "failed"}
<1>1. ASSUME NEW s \in Sends
      PROVE  AnsweredSpec /\ AttemptsRunOut(s)
               => (Stage(s) = "open" ~> Stage(s) \in {"answered", "failed"})
  <2>1. AnsweredSpec => Spec /\ Served(s)
    BY DEF AnsweredSpec, ServedSpec
  <2>2. AnsweredSpec => (pc[s] = "awaiting" ~> pc[s] = "settled")
    <3>1. CASE Packet(s) \in HasTimeout
      BY <2>1, <3>1, TimerEndsWait
    <3>2. CASE Packet(s) \notin HasTimeout
      <4>1. AnsweredSpec => []<>~Waiting(s) \/ []<><<Answers(s)>>_vars
        BY <3>2 DEF AnsweredSpec
      <4> QED
        BY <2>1, <3>2, <4>1, AnswerEndsWait
    <3> QED
      BY <3>1, <3>2
  <2>3. AnsweredSpec /\ AttemptsRunOut(s) => (pc[s] \notin {"idle", "done"} ~> pc[s] = "done")
    <3>1. Spec /\ AttemptsRunOut(s) => <>[][attempt'[s] = attempt[s]]_vars
      BY AttemptsStop
    <3>2. Spec /\ Served(s) /\ <>[][attempt'[s] = attempt[s]]_vars
            /\ (pc[s] = "awaiting" ~> pc[s] = "settled")
            => (pc[s] \notin {"idle", "done"} ~> pc[s] = "done")
      BY CallReturns
    <3> QED
      BY <2>1, <2>2, <3>1, <3>2, PTL
  <2>4. IInv /\ Stage(s) = "open" => pc[s] \notin {"idle", "done"}
    BY DEF IInv, TypeOK, LoopInv, Stage
  <2>5. IInv /\ pc[s] = "done" => ~(Stage(s) = "open")
    BY DEF IInv, LoopInv, Stage
  <2>6. IInv /\ Stage(s) = "open" /\ [Next]_vars
          => (Stage(s) = "open")' \/ (Stage(s) \in {"answered", "failed"})'
    BY StageMoves
  <2> QED
    BY <2>1, <2>3, <2>4, <2>5, <2>6, Invariance, PTL DEF Spec
<1> QED
  BY <1>1

-----------------------------------------------------------------------------
(***************************************************************************)
(* PacketTrace: tracing leaves the send path as it is, the statistics and  *)
(* the trace differ by one kind of failure only, and the trace shows what  *)
(* is under way.                                                           *)
(***************************************************************************)

LEMMA TraceStepIsStep == [TraceNext]_traceVars => [Next]_vars
  BY DEF TraceNext, traceVars, Untraced, Next, Submit, Continue

\* Tracing adds rows and changes nothing else: every behaviour with a trace is
\* one of Runtime, so that what holds of the send path holds here as well.
THEOREM TraceKeepsSendPath == TraceSpec => Spec
<1>1. TraceInit => Init
  BY DEF TraceInit
<1>2. QED
  BY <1>1, TraceStepIsStep, PTL DEF TraceSpec, Spec

-----------------------------------------------------------------------------
\* Counting rows.

LEMMA ConcatFacts ==
  ASSUME NEW tr \in Seq(Rows), NEW new \in Seq(Rows)
  PROVE  /\ tr \o new \in Seq(Rows)
         /\ Len(tr \o new) = Len(tr) + Len(new)
         /\ \A i \in 1..Len(tr) : (tr \o new)[i] = tr[i]
         /\ \A i \in 1..Len(new) : (tr \o new)[Len(tr) + i] = new[i]
  OBVIOUS

LEMMA AboutFinite ==
  ASSUME NEW tr \in Seq(Rows), NEW P, NEW E
  PROVE  /\ IsFiniteSet(About(tr, P, E))
         /\ Cardinality(About(tr, P, E)) \in Nat
<1>1. IsFiniteSet(1..Len(tr))
  BY FS_Interval
<1>2. About(tr, P, E) \in SUBSET (1..Len(tr))
  BY DEF About
<1>3. QED
  BY <1>1, <1>2, FS_Subset, FS_CardinalityType

LEMMA DisjointUnion ==
  ASSUME NEW S, NEW T, IsFiniteSet(S), IsFiniteSet(T), S \cap T = {}
  PROVE  Cardinality(S \cup T) = Cardinality(S) + Cardinality(T)
<1>1. Cardinality(S) \in Nat /\ Cardinality(T) \in Nat /\ Cardinality({}) = 0
  BY FS_CardinalityType, FS_EmptySet
<1>2. Cardinality(S \cup T) = Cardinality(S) + Cardinality(T) - Cardinality(S \cap T)
  BY FS_Union
<1>3. Cardinality(S \cap T) = 0
  BY <1>1
<1>4. QED
  BY <1>1, <1>2, <1>3

\* The count over a trace and the rows added to it is the sum of their counts.
LEMMA AboutAdds ==
  ASSUME NEW tr \in Seq(Rows), NEW new \in Seq(Rows), NEW P, NEW E
  PROVE  Cardinality(About(tr \o new, P, E)) =
           Cardinality(About(tr, P, E)) + Cardinality(About(new, P, E))
<1> DEFINE A == About(tr, P, E)
           B == About(new, P, E)
           C == {i \in (Len(tr) + 1)..(Len(tr) + Len(new)) :
                   (tr \o new)[i].packetId \in P /\ (tr \o new)[i].event \in E}
           f == [i \in B |-> Len(tr) + i]
<1>1. IsFiniteSet(A) /\ IsFiniteSet(B)
  BY AboutFinite
<1>2. About(tr \o new, P, E) = A \cup C
  BY ConcatFacts DEF About
<1>3. A \cap C = {}
  BY DEF About
<1>4. f \in Bijection(B, C)
  <2>1. ASSUME NEW i \in B PROVE f[i] \in C
    BY ConcatFacts DEF About
  <2>2. ASSUME NEW j \in C PROVE \E i \in B : f[i] = j
    <3>1. j - Len(tr) \in 1..Len(new) /\ Len(tr) + (j - Len(tr)) = j
      OBVIOUS
    <3>2. j - Len(tr) \in B
      BY <3>1, ConcatFacts DEF About
    <3>3. QED
      BY <3>1, <3>2
  <2>3. ASSUME NEW i \in B, NEW j \in B, f[i] = f[j] PROVE i = j
    BY <2>3 DEF About
  <2>4. QED
    BY <2>1, <2>2, <2>3 DEF Bijection, Injection, Surjection, IsInjective
<1>5. IsFiniteSet(C) /\ Cardinality(C) = Cardinality(B)
  BY <1>1, <1>4, FS_Bijection DEF ExistsBijection
<1>6. QED
  <2> HIDE DEF A, B, C
  <2>1. Cardinality(A \cup C) = Cardinality(A) + Cardinality(C)
    BY <1>1, <1>3, <1>5, DisjointUnion
  <2>2. QED
    BY <2>1, <1>2, <1>5 DEF A, B
LEMMA RetriesFinite ==
  ASSUME NEW tr \in Seq(Rows), NEW E
  PROVE  /\ IsFiniteSet(RetriesIn(tr, E))
         /\ Cardinality(RetriesIn(tr, E)) \in Nat
<1>1. IsFiniteSet(1..Len(tr)) /\ IsFiniteSet(2..MaxAttempts)
  BY FS_Interval, RuntimeAssumption
<1>2. IsFiniteSet((1..Len(tr)) \X (2..MaxAttempts))
  BY <1>1, FS_Product
<1>3. RetriesIn(tr, E) \in SUBSET ((1..Len(tr)) \X (2..MaxAttempts))
  BY DEF RetriesIn
<1>4. QED
  BY <1>2, <1>3, FS_Subset, FS_CardinalityType

LEMMA RetriesAdd ==
  ASSUME NEW tr \in Seq(Rows), NEW new \in Seq(Rows), NEW E
  PROVE  Cardinality(RetriesIn(tr \o new, E)) =
           Cardinality(RetriesIn(tr, E)) + Cardinality(RetriesIn(new, E))
<1> DEFINE A == RetriesIn(tr, E)
           B == RetriesIn(new, E)
           C == {ia \in ((Len(tr) + 1)..(Len(tr) + Len(new))) \X (2..MaxAttempts) :
                   (tr \o new)[ia[1]].event \in E /\ ia[2] <= (tr \o new)[ia[1]].attempts}
           f == [ia \in B |-> <<Len(tr) + ia[1], ia[2]>>]
<1>1. IsFiniteSet(A) /\ IsFiniteSet(B)
  BY RetriesFinite
<1>2. RetriesIn(tr \o new, E) = A \cup C
  BY ConcatFacts DEF RetriesIn
<1>3. A \cap C = {}
  BY DEF RetriesIn
<1>4. f \in Bijection(B, C)
  <2>1. ASSUME NEW ia \in B PROVE f[ia] \in C
    BY ConcatFacts DEF RetriesIn
  <2>2. ASSUME NEW ja \in C PROVE \E ia \in B : f[ia] = ja
    <3>1. PICK j \in (Len(tr) + 1)..(Len(tr) + Len(new)), a \in 2..MaxAttempts : ja = <<j, a>>
      OBVIOUS
    <3>2. j - Len(tr) \in 1..Len(new) /\ Len(tr) + (j - Len(tr)) = j
      OBVIOUS
    <3>3. <<j - Len(tr), a>> \in B
      BY <3>1, <3>2, ConcatFacts DEF RetriesIn
    <3>4. QED
      BY <3>1, <3>2, <3>3
  <2>3. ASSUME NEW ia \in B, NEW ja \in B, f[ia] = f[ja] PROVE ia = ja
    <3>1. Len(tr) + ia[1] = Len(tr) + ja[1] /\ ia[2] = ja[2]
      BY <2>3
    <3>2. QED
      BY <3>1 DEF RetriesIn
  <2>4. QED
    BY <2>1, <2>2, <2>3 DEF Bijection, Injection, Surjection, IsInjective
<1>5. IsFiniteSet(C) /\ Cardinality(C) = Cardinality(B)
  BY <1>1, <1>4, FS_Bijection DEF ExistsBijection
<1>6. QED
  <2> HIDE DEF A, B, C
  <2>1. Cardinality(A \cup C) = Cardinality(A) + Cardinality(C)
    BY <1>1, <1>3, <1>5, DisjointUnion
  <2>2. QED
    BY <2>1, <1>2, <1>5 DEF A, B
-----------------------------------------------------------------------------
\* What each batch of rows adds to the counts.

\* The five counts of TraceIsAudit over a list of rows.
Tally(rows, completed, failed, deadLettered, dispatched, retried) ==
  /\ Cardinality(About(rows, Packets, {"packet.completed"})) = completed
  /\ Cardinality(About(rows, Packets, {"packet.rejected", "packet.failed"})) = failed
  /\ Cardinality(About(rows, Packets, {"packet.failed"})) = deadLettered
  /\ Cardinality(About(rows, Packets, {"packet.dispatched"})) = dispatched
  /\ Cardinality(RetriesIn(rows, {"handler.finished", "handler.threw"})) = retried

LEMMA TallyAdds ==
  ASSUME NEW tr \in Seq(Rows), NEW new \in Seq(Rows),
         NEW a, NEW b, NEW c, NEW d, NEW e,
         NEW v, NEW w, NEW x, NEW y, NEW z,
         Tally(tr, a, b, c, d, e), Tally(new, v, w, x, y, z)
  PROVE  Tally(tr \o new, a + v, b + w, c + x, d + y, e + z)
  BY AboutAdds, RetriesAdd DEF Tally

LEMMA EventType ==
  ASSUME NEW s \in Sends, NEW e \in Events
  PROVE  Event(s, e) \in Rows
  BY RuntimeAssumption DEF Event, Row, Rows, Packet, Task

LEMMA EmptyTally == <<>> \in Seq(Rows) /\ Tally(<<>>, 0, 0, 0, 0, 0)
<1>1. \A P, E : About(<<>>, P, E) = {}
  BY DEF About
<1>2. \A E : RetriesIn(<<>>, E) = {}
  BY DEF RetriesIn
<1>3. Cardinality({}) = 0
  BY FS_EmptySet
<1>4. Tally(<<>>, 0, 0, 0, 0, 0)
  BY <1>1, <1>2, <1>3 DEF Tally
<1>5. QED
  BY <1>4

LEMMA DispatchTally ==
  ASSUME NEW s \in Sends
  PROVE  /\ DispatchRows(s) \in Seq(Rows)
         /\ Tally(DispatchRows(s), 0, 0, 0, IF Mode[s] = "dispatch" THEN 1 ELSE 0, 0)
<1>1. CASE Mode[s] # "dispatch"
  BY <1>1, EmptyTally DEF DispatchRows
<1>2. CASE Mode[s] = "dispatch"
  <2> DEFINE q == <<Event(s, "packet.dispatched")>>
  <2>1. DispatchRows(s) = q
    BY <1>2 DEF DispatchRows
  <2>2. q \in Seq(Rows)
    BY EventType DEF Events
  <2>3. Len(q) = 1 /\ q[1].event = "packet.dispatched" /\ q[1].packetId \in Packets /\ q[1].attempts = 0
    BY RuntimeAssumption DEF Event, Row, Packet
  <2>4. \A E : "packet.dispatched" \notin E => About(q, Packets, E) = {}
    BY <2>3 DEF About
  <2>5. About(q, Packets, {"packet.dispatched"}) = {1}
    BY <2>3 DEF About
  <2>6. \A E : RetriesIn(q, E) = {}
    BY <2>3 DEF RetriesIn
  <2>7. QED
    BY <1>2, <2>1, <2>2, <2>4, <2>5, <2>6, FS_EmptySet, FS_Singleton DEF Tally
<1>3. QED
  BY <1>1, <1>2

LEMMA RejectTally ==
  ASSUME NEW s \in Sends
  PROVE  /\ RejectRows(s) \in Seq(Rows)
         /\ Tally(RejectRows(s), 0, 1, 0, IF Mode[s] = "dispatch" THEN 1 ELSE 0, 0)
<1> DEFINE q == <<Event(s, "packet.received"), Event(s, "packet.rejected")>>
<1>1. q \in Seq(Rows)
  BY EventType DEF Events
<1>2. /\ Len(q) = 2 /\ q[1].event = "packet.received" /\ q[2].event = "packet.rejected"
      /\ q[2].packetId \in Packets /\ q[1].attempts = 0 /\ q[2].attempts = 0
  BY RuntimeAssumption DEF Event, Row, Packet
<1>3. /\ About(q, Packets, {"packet.completed"}) = {}
      /\ About(q, Packets, {"packet.failed"}) = {}
      /\ About(q, Packets, {"packet.dispatched"}) = {}
      /\ About(q, Packets, {"packet.rejected", "packet.failed"}) = {2}
  BY <1>2 DEF About
<1>4. RetriesIn(q, {"handler.finished", "handler.threw"}) = {}
  BY <1>2 DEF RetriesIn
<1>5. Tally(q, 0, 1, 0, 0, 0)
  BY <1>3, <1>4, FS_EmptySet, FS_Singleton DEF Tally
<1>6. RejectRows(s) = DispatchRows(s) \o q
  BY DEF RejectRows
<1>7. Tally(RejectRows(s), 0 + 0, 0 + 1, 0 + 0, (IF Mode[s] = "dispatch" THEN 1 ELSE 0) + 0, 0 + 0)
  BY <1>1, <1>5, <1>6, DispatchTally, TallyAdds
<1>8. QED
  BY <1>1, <1>6, <1>7, DispatchTally, ConcatFacts

LEMMA AcceptTally ==
  ASSUME NEW s \in Sends
  PROVE  /\ AcceptRows(s) \in Seq(Rows)
         /\ Tally(AcceptRows(s), 0, 0, 0, IF Mode[s] = "dispatch" THEN 1 ELSE 0, 0)
<1> DEFINE q == <<Event(s, "packet.received"), Event(s, "packet.validated"), Event(s, "packet.routed"),
                  Event(s, "packet.delivered"), Event(s, "handler.started")>>
<1>1. q \in Seq(Rows)
  BY EventType DEF Events
<1>2. \A i \in 1..Len(q) :
        q[i].event \in {"packet.received", "packet.validated", "packet.routed",
                        "packet.delivered", "handler.started"}
  BY DEF Event, Row
<1>3. /\ About(q, Packets, {"packet.completed"}) = {}
      /\ About(q, Packets, {"packet.failed"}) = {}
      /\ About(q, Packets, {"packet.dispatched"}) = {}
      /\ About(q, Packets, {"packet.rejected", "packet.failed"}) = {}
  BY <1>2 DEF About
<1>4. RetriesIn(q, {"handler.finished", "handler.threw"}) = {}
  BY <1>2 DEF RetriesIn
<1>5. Tally(q, 0, 0, 0, 0, 0)
  BY <1>3, <1>4, FS_EmptySet DEF Tally
<1>6. AcceptRows(s) = DispatchRows(s) \o q
  BY DEF AcceptRows
<1>7. Tally(AcceptRows(s), 0 + 0, 0 + 0, 0 + 0, (IF Mode[s] = "dispatch" THEN 1 ELSE 0) + 0, 0 + 0)
  BY <1>1, <1>5, <1>6, DispatchTally, TallyAdds
<1>8. QED
  BY <1>1, <1>6, <1>7, DispatchTally, ConcatFacts

\* A row with n attempts tells of n - 1 retries.
LEMMA RetriesOfFirst ==
  ASSUME NEW n \in 1..MaxAttempts
  PROVE  Cardinality({1} \X (2..n)) = n - 1
<1>1. IsFiniteSet({1}) /\ Cardinality({1}) = 1
  BY FS_Singleton
<1>2. IsFiniteSet(2..n) /\ Cardinality(2..n) = IF 2 > n THEN 0 ELSE n - 2 + 1
  BY FS_Interval, RuntimeAssumption
<1>3. Cardinality({1} \X (2..n)) = 1 * Cardinality(2..n)
  BY <1>1, <1>2, FS_Product
<1>4. QED
  BY <1>2, <1>3, RuntimeAssumption

LEMMA FailTally ==
  ASSUME NEW s \in Sends, attempt[s] \in 1..MaxAttempts
  PROVE  /\ FailRows(s) \in Seq(Rows)
         /\ Tally(FailRows(s), 0, 1, 1, 0, attempt[s] - 1)
<1> DEFINE q == FailRows(s)
<1>1. q \in Seq(Rows)
  BY RuntimeAssumption DEF FailRows, Row, Rows, Events, Packet, Task
<1>2. /\ Len(q) = 2 /\ q[1].event = "handler.threw" /\ q[2].event = "packet.failed"
      /\ q[2].packetId \in Packets /\ q[1].attempts = attempt[s]
  BY RuntimeAssumption DEF FailRows, Row, Packet
<1>3. /\ About(q, Packets, {"packet.completed"}) = {}
      /\ About(q, Packets, {"packet.failed"}) = {2}
      /\ About(q, Packets, {"packet.dispatched"}) = {}
      /\ About(q, Packets, {"packet.rejected", "packet.failed"}) = {2}
  BY <1>2 DEF About
<1>4. RetriesIn(q, {"handler.finished", "handler.threw"}) = {1} \X (2..attempt[s])
  BY <1>2, RuntimeAssumption DEF RetriesIn
<1>5. QED
  BY <1>1, <1>3, <1>4, FS_EmptySet, FS_Singleton, RetriesOfFirst DEF Tally

LEMMA ReplyTally ==
  ASSUME NEW s \in Sends
  PROVE  /\ ReplyRows(s) \in Seq(Rows)
         /\ Tally(ReplyRows(s), 0, 0, 0, 0, 0)
<1>1. CASE result[s] \notin {"ack", "nack"}
  BY <1>1, EmptyTally DEF ReplyRows
<1>2. ASSUME NEW e \in {"packet.acked", "packet.nacked"}
      PROVE  <<Event(s, e)>> \in Seq(Rows) /\ Tally(<<Event(s, e)>>, 0, 0, 0, 0, 0)
  <2> DEFINE q == <<Event(s, e)>>
  <2>1. q \in Seq(Rows)
    BY EventType DEF Events
  <2>2. Len(q) = 1 /\ q[1].event = e
    BY DEF Event, Row
  <2>3. \A E : e \notin E => About(q, Packets, E) = {} /\ RetriesIn(q, E) = {}
    BY <2>2 DEF About, RetriesIn
  <2>4. QED
    BY <2>1, <2>3, FS_EmptySet DEF Tally
<1>3. QED
  BY <1>1, <1>2 DEF ReplyRows

LEMMA CompleteTally ==
  ASSUME NEW s \in Sends, attempt[s] \in 1..MaxAttempts
  PROVE  /\ CompleteRows(s) \in Seq(Rows)
         /\ Tally(CompleteRows(s), 1, 0, 0, 0, attempt[s] - 1)
<1> DEFINE q == <<FinishRow(s), Event(s, "packet.completed")>>
<1>1. q \in Seq(Rows)
  BY RuntimeAssumption DEF FinishRow, Event, Row, Rows, Events, Packet, Task
<1>2. /\ Len(q) = 2 /\ q[1].event = "handler.finished" /\ q[2].event = "packet.completed"
      /\ q[2].packetId \in Packets
      /\ q[1].attempts = IF attempt[s] > 1 THEN attempt[s] ELSE 0
  BY RuntimeAssumption DEF FinishRow, Event, Row, Packet
<1>3. /\ About(q, Packets, {"packet.completed"}) = {2}
      /\ About(q, Packets, {"packet.failed"}) = {}
      /\ About(q, Packets, {"packet.dispatched"}) = {}
      /\ About(q, Packets, {"packet.rejected", "packet.failed"}) = {}
  BY <1>2 DEF About
<1>4. RetriesIn(q, {"handler.finished", "handler.threw"}) = {1} \X (2..attempt[s])
  BY <1>2, RuntimeAssumption DEF RetriesIn
<1>5. Tally(q, 1, 0, 0, 0, attempt[s] - 1)
  BY <1>3, <1>4, FS_EmptySet, FS_Singleton, RetriesOfFirst DEF Tally
<1>6. CompleteRows(s) = q \o ReplyRows(s)
  BY DEF CompleteRows
<1>7. Tally(CompleteRows(s), 1 + 0, 0 + 0, 0 + 0, 0 + 0, (attempt[s] - 1) + 0)
  BY <1>1, <1>5, <1>6, ReplyTally, TallyAdds
<1>8. QED
  BY <1>1, <1>6, <1>7, ReplyTally, ConcatFacts, RuntimeAssumption

LEMMA DeliverTally ==
  ASSUME NEW s \in Sends, NEW p \in ResultIds
  PROVE  /\ DeliverRows(s, p) \in Seq(Rows)
         /\ Tally(DeliverRows(s, p), 0, 0, 0, 0, 0)
<1>1. CASE pendingAcks[Task(s)] = NoSend
  BY <1>1, EmptyTally DEF DeliverRows
<1>2. CASE pendingAcks[Task(s)] # NoSend
  <2> DEFINE q == <<Row(p, Task(s), Delivery, 0)>>
  <2>1. DeliverRows(s, p) = q
    BY <1>2 DEF DeliverRows
  <2>2. q \in Seq(Rows)
    BY RuntimeAssumption DEF Row, Rows, Events, Task, Packet
  <2>3. Len(q) = 1 /\ q[1].event = Delivery
    BY DEF Row
  <2>4. \A E : Delivery \notin E => About(q, Packets, E) = {} /\ RetriesIn(q, E) = {}
    BY <2>3 DEF About, RetriesIn
  <2>5. Delivery \notin {"packet.completed", "packet.rejected", "packet.failed", "packet.dispatched",
                         "handler.finished", "handler.threw"}
    BY DEF Delivery
  <2>6. /\ About(q, Packets, {"packet.completed"}) = {} /\ About(q, Packets, {"packet.failed"}) = {}
        /\ About(q, Packets, {"packet.rejected", "packet.failed"}) = {}
        /\ About(q, Packets, {"packet.dispatched"}) = {}
        /\ RetriesIn(q, {"handler.finished", "handler.threw"}) = {}
    BY <2>4, <2>5
  <2>7. Tally(q, 0, 0, 0, 0, 0)
    BY <2>6, FS_EmptySet DEF Tally
  <2>8. QED
    BY <2>1, <2>2, <2>7
<1>3. QED
  BY <1>1, <1>2
-----------------------------------------------------------------------------
\* The trace and the statistics.

\* The failures that leave a row: all but those for want of a capable role.
TracedFailures == stats.failed - Cardinality(Ended({"noRole"}))

StatsTally(rows) ==
  Tally(rows, stats.processed, TracedFailures, stats.deadLettered, stats.dispatched, stats.retried)

LEMMA AuditGrows ==
  ASSUME TraceTypeOK, StatsTally(traceEvents),
         NEW new \in Seq(Rows), NEW v, NEW w, NEW x, NEW y, NEW z,
         Tally(new, v, w, x, y, z), Record(new),
         stats'.processed = stats.processed + v,
         TracedFailures' = TracedFailures + w,
         stats'.deadLettered = stats.deadLettered + x,
         stats'.dispatched = stats.dispatched + y,
         stats'.retried = stats.retried + z
  PROVE  TraceTypeOK' /\ StatsTally(traceEvents)'
<1>1. traceEvents \in Seq(Rows)
  BY DEF TraceTypeOK
<1>2. Tally(traceEvents \o new, stats.processed + v, TracedFailures + w, stats.deadLettered + x,
            stats.dispatched + y, stats.retried + z)
  BY <1>1, TallyAdds DEF StatsTally
<1>3. traceEvents' = traceEvents \o new
  BY DEF Record
<1>4. TraceTypeOK'
  BY <1>1, <1>3, ConcatFacts DEF TraceTypeOK
<1>5. QED
  BY <1>2, <1>3, <1>4 DEF StatsTally, Tally, About, RetriesIn

LEMMA AuditStep ==
  ASSUME TypeOK, LoopInv, Books, TraceTypeOK, StatsTally(traceEvents), [TraceNext]_traceVars
  PROVE  TraceTypeOK' /\ StatsTally(traceEvents)'
<1>1. /\ traceEvents \in Seq(Rows)
      /\ stats.processed \in Nat /\ stats.failed \in Nat /\ stats.retried \in Nat
      /\ stats.deadLettered \in Nat /\ stats.dispatched \in Nat
  BY DEF TraceTypeOK, TypeOK, RuntimeStats
<1>2. stats = [processed |-> stats.processed, failed |-> stats.failed,
               retried |-> stats.retried, deadLettered |-> stats.deadLettered,
               dispatched |-> stats.dispatched]
  BY DEF TypeOK, RuntimeStats
<1>3. \A s \in Sends : pc[s] = "settled" => attempt[s] \in 1..MaxAttempts
  BY RuntimeAssumption DEF TypeOK, LoopInv
<1>4. CASE UNCHANGED <<stats.processed, TracedFailures, stats.deadLettered, stats.dispatched,
                       stats.retried, traceEvents>>
  BY <1>4 DEF TraceTypeOK, StatsTally, Tally, About, RetriesIn
<1>a. \A o \in Outcomes : o # "noRole" => \A s \in Sends :
        outcome[s] = "none" /\ outcome' = [outcome EXCEPT ![s] = o]
          => Ended({"noRole"})' = Ended({"noRole"})
  BY DEF TypeOK, Ended
<1>b. ASSUME Ended({"noRole"})' = Ended({"noRole"}), NEW w \in Nat, stats'.failed = stats.failed + w
      PROVE  TracedFailures' = TracedFailures + w
  <2>1. Cardinality(Ended({"noRole"})) \in Nat
    BY EndedFinite DEF Books
  <2>2. QED
    BY <1>1, <1>b, <2>1 DEF TracedFailures
<1>5. ASSUME NEW s \in Sends, Reject(s), Record(RejectRows(s))
      PROVE  TraceTypeOK' /\ StatsTally(traceEvents)'
  <2>1. /\ stats'.processed = stats.processed + 0
        /\ stats'.failed = stats.failed + 1
        /\ stats'.deadLettered = stats.deadLettered + 0
        /\ stats'.dispatched = stats.dispatched + (IF Mode[s] = "dispatch" THEN 1 ELSE 0)
        /\ stats'.retried = stats.retried + 0
    BY <1>1, <1>2, <1>3, <1>5 DEF Reject, Dispatched
  <2>2. RejectRows(s) \in Seq(Rows) /\ Tally(RejectRows(s), 0, 1, 0, (IF Mode[s] = "dispatch" THEN 1 ELSE 0), 0)
    BY <1>3, <1>5, RejectTally DEF Reject
  <2>3. Ended({"noRole"})' = Ended({"noRole"})
    BY <1>5, <1>a DEF Reject, EntersSend, LoopInv, Outcomes, Replies
  <2>4. TracedFailures' = TracedFailures + 1
    BY <1>b, <2>1, <2>3
  <2>5. QED
    BY <1>5, <2>1, <2>2, <2>4, AuditGrows
<1>6. ASSUME NEW s \in Sends, Accept(s), Record(AcceptRows(s))
      PROVE  TraceTypeOK' /\ StatsTally(traceEvents)'
  <2>1. /\ stats'.processed = stats.processed + 0
        /\ stats'.failed = stats.failed + 0
        /\ stats'.deadLettered = stats.deadLettered + 0
        /\ stats'.dispatched = stats.dispatched + (IF Mode[s] = "dispatch" THEN 1 ELSE 0)
        /\ stats'.retried = stats.retried + 0
    BY <1>1, <1>2, <1>3, <1>6 DEF Accept, Dispatched
  <2>2. AcceptRows(s) \in Seq(Rows) /\ Tally(AcceptRows(s), 0, 0, 0, (IF Mode[s] = "dispatch" THEN 1 ELSE 0), 0)
    BY <1>3, <1>6, AcceptTally DEF Accept
  <2>3. Ended({"noRole"})' = Ended({"noRole"})
    BY <1>6 DEF Accept, Ended
  <2>4. TracedFailures' = TracedFailures + 0
    BY <1>b, <2>1, <2>3
  <2>5. QED
    BY <1>6, <2>1, <2>2, <2>4, AuditGrows
<1>7. ASSUME NEW s \in Sends, DeadLetter(s), Record(FailRows(s))
      PROVE  TraceTypeOK' /\ StatsTally(traceEvents)'
  <2>1. /\ stats'.processed = stats.processed + 0
        /\ stats'.failed = stats.failed + 1
        /\ stats'.deadLettered = stats.deadLettered + 1
        /\ stats'.dispatched = stats.dispatched + 0
        /\ stats'.retried = stats.retried + (attempt[s] - 1)
    BY <1>1, <1>2, <1>3, <1>7 DEF DeadLetter
  <2>2. FailRows(s) \in Seq(Rows) /\ Tally(FailRows(s), 0, 1, 1, 0, (attempt[s] - 1))
    BY <1>3, <1>7, FailTally DEF DeadLetter
  <2>3. Ended({"noRole"})' = Ended({"noRole"})
    BY <1>7, <1>a DEF DeadLetter, EntersSend, LoopInv, Outcomes, Replies
  <2>4. TracedFailures' = TracedFailures + 1
    BY <1>b, <2>1, <2>3
  <2>5. QED
    BY <1>7, <2>1, <2>2, <2>4, AuditGrows
<1>8. ASSUME NEW s \in Sends, Complete(s), Record(CompleteRows(s))
      PROVE  TraceTypeOK' /\ StatsTally(traceEvents)'
  <2>1. /\ stats'.processed = stats.processed + 1
        /\ stats'.failed = stats.failed + 0
        /\ stats'.deadLettered = stats.deadLettered + 0
        /\ stats'.dispatched = stats.dispatched + 0
        /\ stats'.retried = stats.retried + (attempt[s] - 1)
    BY <1>1, <1>2, <1>3, <1>8 DEF Complete
  <2>2. CompleteRows(s) \in Seq(Rows) /\ Tally(CompleteRows(s), 1, 0, 0, 0, (attempt[s] - 1))
    BY <1>3, <1>8, CompleteTally DEF Complete
  <2>3. Ended({"noRole"})' = Ended({"noRole"})
    BY <1>8, <1>a DEF Complete, EntersSend, LoopInv, Outcomes, Replies
  <2>4. TracedFailures' = TracedFailures + 0
    BY <1>b, <2>1, <2>3
  <2>5. QED
    BY <1>8, <2>1, <2>2, <2>4, AuditGrows
<1>9. ASSUME NEW s \in Sends, DeliverResult(s), NEW p \in ResultIds,
             Record(DeliverRows(s, p))
      PROVE  TraceTypeOK' /\ StatsTally(traceEvents)'
  <2>1. /\ stats'.processed = stats.processed + 0
        /\ stats'.failed = stats.failed + 0
        /\ stats'.deadLettered = stats.deadLettered + 0
        /\ stats'.dispatched = stats.dispatched + 0
        /\ stats'.retried = stats.retried + 0
    BY <1>1, <1>2, <1>3, <1>9 DEF DeliverResult
  <2>2. DeliverRows(s, p) \in Seq(Rows) /\ Tally(DeliverRows(s, p), 0, 0, 0, 0, 0)
    BY <1>3, <1>9, DeliverTally DEF DeliverResult
  <2>3. Ended({"noRole"})' = Ended({"noRole"})
    BY <1>9 DEF DeliverResult, Ended
  <2>4. TracedFailures' = TracedFailures + 0
    BY <1>b, <2>1, <2>3
  <2>5. QED
    BY <1>9, <2>1, <2>2, <2>4, AuditGrows
<1>10. ASSUME NEW s \in Sends, NoCapableRole(s), UNCHANGED traceEvents
       PROVE  TraceTypeOK' /\ StatsTally(traceEvents)'
  <2>1. /\ stats'.processed = stats.processed /\ stats'.deadLettered = stats.deadLettered
        /\ stats'.dispatched = stats.dispatched /\ stats'.retried = stats.retried
        /\ stats'.failed = stats.failed + 1
    BY <1>2, <1>10 DEF NoCapableRole
  <2>2. s \notin Ended({"noRole"}) /\ Ended({"noRole"})' = Ended({"noRole"}) \cup {s}
    BY <1>10, Ending DEF NoCapableRole, LoopInv, Outcomes
  <2>3. IsFiniteSet(Ended({"noRole"})) /\ Cardinality(Ended({"noRole"})) \in Nat
    BY EndedFinite DEF Books
  <2>4. Cardinality(Ended({"noRole"}))' = Cardinality(Ended({"noRole"})) + 1
    BY <2>2, <2>3, CountOne
  <2>5. TracedFailures' = TracedFailures
    BY <1>1, <2>1, <2>3, <2>4 DEF TracedFailures
  <2>6. QED
    BY <1>4, <1>10, <2>1, <2>5
<1>11. ASSUME UNCHANGED <<stats, outcome, traceEvents>> PROVE TraceTypeOK' /\ StatsTally(traceEvents)'
  <2>1. TracedFailures' = TracedFailures
    BY <1>11 DEF TracedFailures, Ended
  <2>2. QED
    BY <1>4, <1>11, <2>1
<1>12. ASSUME Untraced, UNCHANGED traceEvents
       PROVE  (\E s \in Sends : NoCapableRole(s)) \/ UNCHANGED <<stats, outcome, traceEvents>>
  BY <1>12 DEF Untraced, TimerFires, Backoff, Retry, AckReturns, Pipeline, Answers, Route, Settle,
     Environment, RegisterRole, UnregisterRole, RemoveDeadLetter, ClearDLQ, sendVars
<1>13. ASSUME UNCHANGED traceVars PROVE UNCHANGED <<stats, outcome, traceEvents>>
  BY <1>13 DEF traceVars, vars
<1>14. QED
  BY <1>5, <1>6, <1>7, <1>8, <1>9, <1>10, <1>11, <1>12, <1>13 DEF TraceNext

-----------------------------------------------------------------------------
\* What a trace shows of the calls under way and of the tasks.

\* The places of the rows of tr that are in R.
Places(tr, R) == {i \in 1..Len(tr) : tr[i] \in R}

Opening(p)    == {r \in Rows : r.packetId = p /\ r.event = "handler.started"}
Closing(p)    == {r \in Rows : r.packetId = p /\ r.event \in {"handler.finished", "handler.threw"}}
Completing(t) == {r \in Rows : r.taskId = t /\ r.event \in {"packet.completed", Delivery}}

LEMMA PlacesAdd ==
  ASSUME NEW tr \in Seq(Rows), NEW new \in Seq(Rows), NEW R
  PROVE  /\ Cardinality(Places(tr, R)) \in Nat
         /\ Cardinality(Places(new, R)) \in Nat
         /\ Cardinality(Places(tr \o new, R)) =
              Cardinality(Places(tr, R)) + Cardinality(Places(new, R))
<1> DEFINE A == Places(tr, R)
           B == Places(new, R)
           C == {i \in (Len(tr) + 1)..(Len(tr) + Len(new)) : (tr \o new)[i] \in R}
           f == [i \in B |-> Len(tr) + i]
<1>1. IsFiniteSet(A) /\ IsFiniteSet(B)
  <2>1. Len(tr) \in Nat /\ Len(new) \in Nat
    OBVIOUS
  <2>2. IsFiniteSet(1..Len(tr)) /\ IsFiniteSet(1..Len(new))
    BY <2>1, FS_Interval
  <2>3. A \in SUBSET (1..Len(tr)) /\ B \in SUBSET (1..Len(new))
    BY DEF Places
  <2>4. QED
    BY <2>2, <2>3, FS_Subset
<1>2. Places(tr \o new, R) = A \cup C
  BY ConcatFacts DEF Places
<1>3. A \cap C = {}
  BY DEF Places
<1>4. f \in Bijection(B, C)
  <2>1. ASSUME NEW i \in B PROVE f[i] \in C
    BY ConcatFacts DEF Places
  <2>2. ASSUME NEW j \in C PROVE \E i \in B : f[i] = j
    <3>1. j - Len(tr) \in 1..Len(new) /\ Len(tr) + (j - Len(tr)) = j
      OBVIOUS
    <3>2. j - Len(tr) \in B
      BY <3>1, ConcatFacts DEF Places
    <3>3. QED
      BY <3>1, <3>2
  <2>3. ASSUME NEW i \in B, NEW j \in B, f[i] = f[j] PROVE i = j
    BY <2>3 DEF Places
  <2>4. QED
    BY <2>1, <2>2, <2>3 DEF Bijection, Injection, Surjection, IsInjective
<1>5. IsFiniteSet(C) /\ Cardinality(C) = Cardinality(B)
  BY <1>1, <1>4, FS_Bijection DEF ExistsBijection
<1>6. Cardinality(A) \in Nat /\ Cardinality(B) \in Nat
  BY <1>1, FS_CardinalityType
<1>7. QED
  <2> HIDE DEF A, B, C
  <2>1. Cardinality(A \cup C) = Cardinality(A) + Cardinality(C)
    BY <1>1, <1>3, <1>5, DisjointUnion
  <2>2. QED
    BY <2>1, <1>2, <1>5, <1>6 DEF A, B

\* The rows of one step, all about packet p and task t, hold this many rows
\* that open a call, that close one, and that complete the task.
Shows(rows, p, t, opens, closes, completes) ==
  /\ rows \in Seq(Rows)
  /\ \A q \in Packets : /\ Cardinality(Places(rows, Opening(q))) = IF q = p THEN opens ELSE 0
                        /\ Cardinality(Places(rows, Closing(q))) = IF q = p THEN closes ELSE 0
  /\ \A u \in Tasks : Cardinality(Places(rows, Completing(u))) = IF u = t THEN completes ELSE 0

LEMMA ShowsAdds ==
  ASSUME NEW rows, NEW more, NEW p, NEW t,
         NEW a \in Nat, NEW b \in Nat, NEW c \in Nat, NEW x \in Nat, NEW y \in Nat, NEW z \in Nat,
         Shows(rows, p, t, a, b, c), Shows(more, p, t, x, y, z)
  PROVE  Shows(rows \o more, p, t, a + x, b + y, c + z)
<1>1. rows \in Seq(Rows) /\ more \in Seq(Rows) /\ rows \o more \in Seq(Rows)
  BY ConcatFacts DEF Shows
<1>2. \A R : Cardinality(Places(rows \o more, R)) =
               Cardinality(Places(rows, R)) + Cardinality(Places(more, R))
  BY <1>1, PlacesAdd
<1>3. QED
  BY <1>1, <1>2 DEF Shows

LEMMA EmptyShows ==
  ASSUME NEW p, NEW t
  PROVE  Shows(<<>>, p, t, 0, 0, 0)
<1>1. \A R : Places(<<>>, R) = {}
  BY DEF Places
<1>2. Cardinality({}) = 0 /\ <<>> \in Seq(Rows)
  BY FS_EmptySet
<1>3. \A R : Cardinality(Places(<<>>, R)) = 0
  BY <1>1, <1>2
<1>4. QED
  BY <1>2, <1>3 DEF Shows

LEMMA RowShows ==
  ASSUME NEW p \in Packets \cup ResultIds, NEW t \in Tasks, NEW e \in Events, NEW n \in Nat
  PROVE  Shows(<<Row(p, t, e, n)>>, p, t,
               IF e = "handler.started" THEN 1 ELSE 0,
               IF e \in {"handler.finished", "handler.threw"} THEN 1 ELSE 0,
               IF e \in {"packet.completed", Delivery} THEN 1 ELSE 0)
<1> DEFINE r == Row(p, t, e, n)
<1>1. /\ r \in Rows /\ r.packetId = p /\ r.taskId = t /\ r.event = e
      /\ <<r>> \in Seq(Rows)
  BY DEF Row, Rows
<1>2. \A R : Places(<<r>>, R) = IF r \in R THEN {1} ELSE {}
  BY <1>1 DEF Places
<1>3. \A R : Cardinality(Places(<<r>>, R)) = IF r \in R THEN 1 ELSE 0
  <2>1. Cardinality({1}) = 1 /\ Cardinality({}) = 0
    BY FS_Singleton, FS_EmptySet
  <2>2. QED
    BY <1>2, <2>1
<1>4. /\ \A q : r \in Opening(q) <=> q = p /\ e = "handler.started"
      /\ \A q : r \in Closing(q) <=> q = p /\ e \in {"handler.finished", "handler.threw"}
      /\ \A u : r \in Completing(u) <=> u = t /\ e \in {"packet.completed", Delivery}
  BY <1>1 DEF Opening, Closing, Completing
<1> HIDE DEF r
<1>5. Shows(<<r>>, p, t, IF e = "handler.started" THEN 1 ELSE 0,
                         IF e \in {"handler.finished", "handler.threw"} THEN 1 ELSE 0,
                         IF e \in {"packet.completed", Delivery} THEN 1 ELSE 0)
  BY <1>1, <1>3, <1>4 DEF Shows
<1>6. QED
  BY <1>5 DEF r

LEMMA EventShows ==
  ASSUME NEW s \in Sends, NEW e \in Events
  PROVE  Shows(<<Event(s, e)>>, Packet(s), Task(s),
               IF e = "handler.started" THEN 1 ELSE 0,
               IF e \in {"handler.finished", "handler.threw"} THEN 1 ELSE 0,
               IF e \in {"packet.completed", Delivery} THEN 1 ELSE 0)
<1>1. Packet(s) \in Packets /\ Task(s) \in Tasks
  BY RuntimeAssumption DEF Packet, Task
<1>2. QED
  BY <1>1, RowShows DEF Event

\* The rows of each group.
LEMMA DispatchShows ==
  ASSUME NEW s \in Sends
  PROVE  Shows(DispatchRows(s), Packet(s), Task(s), 0, 0, 0)
<1>1. Shows(<<Event(s, "packet.dispatched")>>, Packet(s), Task(s), 0, 0, 0)
  BY EventShows DEF Events, Delivery
<1>2. QED
  BY <1>1, EmptyShows DEF DispatchRows

LEMMA RejectShows ==
  ASSUME NEW s \in Sends
  PROVE  Shows(RejectRows(s), Packet(s), Task(s), 0, 0, 0)
<1> DEFINE q == <<Event(s, "packet.received")>>
           r == <<Event(s, "packet.rejected")>>
<1>1. Shows(q, Packet(s), Task(s), 0, 0, 0) /\ Shows(r, Packet(s), Task(s), 0, 0, 0)
  BY EventShows DEF Events, Delivery
<1>2. RejectRows(s) = DispatchRows(s) \o (q \o r)
  BY DEF RejectRows
<1> HIDE DEF q, r
<1>3. Shows(q \o r, Packet(s), Task(s), 0 + 0, 0 + 0, 0 + 0)
  BY <1>1, ShowsAdds
<1>4. Shows(DispatchRows(s) \o (q \o r), Packet(s), Task(s), 0 + 0, 0 + 0, 0 + 0)
  BY <1>3, DispatchShows, ShowsAdds
<1>5. QED
  BY <1>2, <1>4

LEMMA AcceptShows ==
  ASSUME NEW s \in Sends
  PROVE  Shows(AcceptRows(s), Packet(s), Task(s), 1, 0, 0)
<1> DEFINE q == <<Event(s, "packet.received")>>
           r == <<Event(s, "packet.validated")>>
           v == <<Event(s, "packet.routed")>>
           w == <<Event(s, "packet.delivered")>>
           x == <<Event(s, "handler.started")>>
<1>1. /\ Shows(q, Packet(s), Task(s), 0, 0, 0) /\ Shows(r, Packet(s), Task(s), 0, 0, 0)
      /\ Shows(v, Packet(s), Task(s), 0, 0, 0) /\ Shows(w, Packet(s), Task(s), 0, 0, 0)
      /\ Shows(x, Packet(s), Task(s), 1, 0, 0)
  BY EventShows DEF Events, Delivery
<1>2. AcceptRows(s) = DispatchRows(s) \o ((q \o r) \o ((v \o w) \o x))
  BY DEF AcceptRows
<1> HIDE DEF q, r, v, w, x
<1>3. /\ Shows(q \o r, Packet(s), Task(s), 0 + 0, 0 + 0, 0 + 0)
      /\ Shows(v \o w, Packet(s), Task(s), 0 + 0, 0 + 0, 0 + 0)
  BY <1>1, ShowsAdds
<1>4. Shows((v \o w) \o x, Packet(s), Task(s), 0 + 1, 0 + 0, 0 + 0)
  BY <1>1, <1>3, ShowsAdds
<1>5. Shows((q \o r) \o ((v \o w) \o x), Packet(s), Task(s), 0 + 1, 0 + 0, 0 + 0)
  BY <1>3, <1>4, ShowsAdds
<1>6. Shows(DispatchRows(s) \o ((q \o r) \o ((v \o w) \o x)), Packet(s), Task(s), 0 + 1, 0 + 0, 0 + 0)
  BY <1>5, DispatchShows, ShowsAdds
<1>7. QED
  BY <1>2, <1>6

LEMMA FailShows ==
  ASSUME NEW s \in Sends, attempt[s] \in Nat
  PROVE  Shows(FailRows(s), Packet(s), Task(s), 0, 1, 0)
<1> DEFINE q == <<Row(Packet(s), Task(s), "handler.threw", attempt[s])>>
           r == <<Row(Packet(s), Task(s), "packet.failed", attempt[s])>>
<1>1. Packet(s) \in Packets \cup ResultIds /\ Task(s) \in Tasks
  BY RuntimeAssumption DEF Packet, Task
<1>2. Shows(q, Packet(s), Task(s), 0, 1, 0) /\ Shows(r, Packet(s), Task(s), 0, 0, 0)
  BY <1>1, RowShows DEF Events, Delivery
<1>3. FailRows(s) = q \o r
  BY DEF FailRows
<1> HIDE DEF q, r
<1>4. Shows(q \o r, Packet(s), Task(s), 0 + 0, 1 + 0, 0 + 0)
  BY <1>2, ShowsAdds
<1>5. QED
  BY <1>3, <1>4

LEMMA CompleteShows ==
  ASSUME NEW s \in Sends, attempt[s] \in Nat
  PROVE  Shows(CompleteRows(s), Packet(s), Task(s), 0, 1, 1)
<1> DEFINE q == <<FinishRow(s)>>
           r == <<Event(s, "packet.completed")>>
<1>1. Packet(s) \in Packets \cup ResultIds /\ Task(s) \in Tasks
  BY RuntimeAssumption DEF Packet, Task
<1>2. Shows(q, Packet(s), Task(s), 0, 1, 0)
  BY <1>1, RowShows DEF Events, Delivery, FinishRow
<1>3. Shows(r, Packet(s), Task(s), 0, 0, 1)
  BY EventShows DEF Events, Delivery
<1>4. Shows(ReplyRows(s), Packet(s), Task(s), 0, 0, 0)
  <2>1. \A e \in {"packet.acked", "packet.nacked"} :
          Shows(<<Event(s, e)>>, Packet(s), Task(s), 0, 0, 0)
    BY EventShows DEF Events, Delivery
  <2>2. QED
    BY <2>1, EmptyShows DEF ReplyRows
<1>5. CompleteRows(s) = (q \o r) \o ReplyRows(s)
  BY DEF CompleteRows
<1> HIDE DEF q, r
<1>6. Shows(q \o r, Packet(s), Task(s), 0, 1, 1)
  <2>1. Shows(q \o r, Packet(s), Task(s), 0 + 0, 1 + 0, 0 + 1)
    BY <1>2, <1>3, ShowsAdds
  <2>2. QED
    BY <2>1
<1>7. Shows((q \o r) \o ReplyRows(s), Packet(s), Task(s), 0 + 0, 1 + 0, 1 + 0)
  BY <1>4, <1>6, ShowsAdds
<1>8. QED
  BY <1>5, <1>7

LEMMA DeliverShows ==
  ASSUME NEW s \in Sends, NEW p \in ResultIds
  PROVE  Shows(DeliverRows(s, p), p, Task(s), 0, 0,
               IF pendingAcks[Task(s)] # NoSend THEN 1 ELSE 0)
<1>1. Task(s) \in Tasks
  BY RuntimeAssumption DEF Packet, Task
<1>2. Shows(<<Row(p, Task(s), Delivery, 0)>>, p, Task(s), 0, 0, 1)
  BY <1>1, RowShows DEF Events, Delivery
<1>3. QED
  BY <1>2, EmptyShows DEF DeliverRows

\* Calls under way against rows, and answers and results against rows.
FlightTally == \A p \in Packets :
  Cardinality(Places(traceEvents, Opening(p))) =
    Cardinality(Places(traceEvents, Closing(p))) + Cardinality(InFlight(p))

Answered(t)  == {s \in Ended(Replies) : Task(s) = t}
Delivered(t) == {s \in Sends : promise[s] = "resolved" /\ Task(s) = t}

TaskTally == \A t \in Tasks :
  Cardinality(Places(traceEvents, Completing(t))) =
    Cardinality(Answered(t)) + Cardinality(Delivered(t))

LEMMA TalliesSayIt ==
  ASSUME TraceTypeOK
  PROVE  /\ FlightTally <=> InFlightIsVisible
         /\ TaskTally <=> TaskCompletions
<1>1. \A i \in 1..Len(traceEvents) : traceEvents[i] \in Rows
  BY DEF TraceTypeOK
<1>2. \A p \in Packets :
        /\ Places(traceEvents, Opening(p)) = About(traceEvents, {p}, {"handler.started"})
        /\ Places(traceEvents, Closing(p)) =
             About(traceEvents, {p}, {"handler.finished", "handler.threw"})
  BY <1>1 DEF Places, About, Opening, Closing
<1>3. \A t \in Tasks :
        Places(traceEvents, Completing(t)) =
          {i \in About(traceEvents, Packets \cup ResultIds, {"packet.completed", Delivery}) :
             traceEvents[i].taskId = t}
  BY <1>1 DEF Places, About, Completing, Rows
<1>4. FlightTally <=> InFlightIsVisible
  BY <1>2 DEF FlightTally, InFlightIsVisible
<1>5. TaskTally <=> TaskCompletions
  BY <1>3 DEF TaskTally, TaskCompletions, Answered, Delivered
<1>6. QED
  BY <1>4, <1>5

\* How the table of rows grows.
LEMMA PlacesGrow ==
  ASSUME TraceTypeOK, NEW rows, NEW p, NEW t, NEW a \in Nat, NEW b \in Nat, NEW c \in Nat,
         Shows(rows, p, t, a, b, c), Record(rows)
  PROVE  /\ \A q \in Packets :
              /\ Cardinality(Places(traceEvents, Opening(q)))' =
                   Cardinality(Places(traceEvents, Opening(q))) + (IF q = p THEN a ELSE 0)
              /\ Cardinality(Places(traceEvents, Closing(q)))' =
                   Cardinality(Places(traceEvents, Closing(q))) + (IF q = p THEN b ELSE 0)
              /\ Cardinality(Places(traceEvents, Opening(q))) \in Nat
              /\ Cardinality(Places(traceEvents, Closing(q))) \in Nat
         /\ \A u \in Tasks :
              /\ Cardinality(Places(traceEvents, Completing(u)))' =
                   Cardinality(Places(traceEvents, Completing(u))) + (IF u = t THEN c ELSE 0)
              /\ Cardinality(Places(traceEvents, Completing(u))) \in Nat
<1>1. traceEvents \in Seq(Rows) /\ rows \in Seq(Rows) /\ traceEvents' = traceEvents \o rows
  BY DEF TraceTypeOK, Shows, Record
<1>2. \A R : /\ Cardinality(Places(traceEvents, R)) \in Nat
             /\ Cardinality(Places(traceEvents', R)) =
                  Cardinality(Places(traceEvents, R)) + Cardinality(Places(rows, R))
  BY <1>1, PlacesAdd
<1>3. \A q : Opening(q)' = Opening(q) /\ Closing(q)' = Closing(q) /\ Completing(q)' = Completing(q)
  BY DEF Opening, Closing, Completing, Rows
<1>4. \A q \in Packets :
        /\ Cardinality(Places(rows, Opening(q))) = (IF q = p THEN a ELSE 0)
        /\ Cardinality(Places(rows, Closing(q))) = (IF q = p THEN b ELSE 0)
  BY DEF Shows
<1>5. \A u \in Tasks : Cardinality(Places(rows, Completing(u))) = (IF u = t THEN c ELSE 0)
  BY DEF Shows
<1>6. QED
  BY <1>2, <1>3, <1>4, <1>5 DEF Places

\* Calls under way and calls answered are finitely many, and so are promises.
LEMMA FlightFinite ==
  ASSUME LoopInv, AckInv, IsFiniteSet(AllBegun)
  PROVE  /\ \A p \in Packets : IsFiniteSet(InFlight(p)) /\ Cardinality(InFlight(p)) \in Nat
         /\ \A t \in Tasks : /\ IsFiniteSet(Answered(t)) /\ Cardinality(Answered(t)) \in Nat
                             /\ IsFiniteSet(Delivered(t)) /\ Cardinality(Delivered(t)) \in Nat
<1>1. \A p \in Packets : InFlight(p) \in SUBSET AllBegun
  BY DEF InFlight, AllBegun
<1>2. \A t \in Tasks : Answered(t) \in SUBSET AllBegun
  BY DEF Answered, Ended, Replies, AllBegun, LoopInv
<1>3. \A t \in Tasks : Delivered(t) \in SUBSET AllBegun
  BY DEF Delivered, AllBegun, AckInv
<1>4. QED
  BY <1>1, <1>2, <1>3, FS_Subset, FS_CardinalityType

LEMMA FlightStays ==
  ASSUME FlightTally, UNCHANGED traceEvents, \A p \in Packets : InFlight(p)' = InFlight(p)
  PROVE  FlightTally'
<1>1. \A q : Opening(q)' = Opening(q) /\ Closing(q)' = Closing(q)
  BY DEF Opening, Closing, Rows
<1>2. QED
  BY <1>1 DEF FlightTally, Places

\* A call that returns leaves those under way with one row that closes it.
LEMMA FlightEnds ==
  ASSUME TypeOK, LoopInv, AckInv, Books, TraceTypeOK, FlightTally, NEW s \in Sends, NEW rows,
         NEW c \in Nat, Shows(rows, Packet(s), Task(s), 0, 1, c), Record(rows),
         pc[s] = "settled", pc' = [pc EXCEPT ![s] = AfterSend(s)]
  PROVE  FlightTally'
<1> SUFFICES ASSUME NEW q \in Packets
             PROVE  Cardinality(Places(traceEvents, Opening(q)))' =
                      Cardinality(Places(traceEvents, Closing(q)))' + Cardinality(InFlight(q))'
  BY DEF FlightTally
<1>0. /\ Cardinality(Places(traceEvents, Opening(q)))' =
           Cardinality(Places(traceEvents, Opening(q))) + (IF q = Packet(s) THEN 0 ELSE 0)
      /\ Cardinality(Places(traceEvents, Closing(q)))' =
           Cardinality(Places(traceEvents, Closing(q))) + (IF q = Packet(s) THEN 1 ELSE 0)
      /\ Cardinality(Places(traceEvents, Opening(q))) \in Nat
      /\ Cardinality(Places(traceEvents, Closing(q))) \in Nat
  BY PlacesGrow
<1>1. CASE q # Packet(s)
  <2>1. InFlight(q)' = InFlight(q)
    BY <1>1 DEF InFlight, AfterSend, TypeOK, Packet
  <2>2. QED
    BY <1>0, <1>1, <2>1 DEF FlightTally
<1>2. CASE q = Packet(s)
  <2>1. s \notin InFlight(q)' /\ InFlight(q) = InFlight(q)' \cup {s}
    BY <1>2 DEF InFlight, AfterSend, TypeOK, Packet
  <2>2. IsFiniteSet(InFlight(q)) /\ Cardinality(InFlight(q)) \in Nat
    BY FlightFinite DEF Books
  <2>3. InFlight(q)' \in SUBSET InFlight(q)
    BY <2>1
  <2>4. IsFiniteSet(InFlight(q)') /\ Cardinality(InFlight(q)') \in Nat
    BY <2>2, <2>3, FS_Subset, FS_CardinalityType
  <2>5. Cardinality(InFlight(q)) = Cardinality(InFlight(q)') + 1
    BY <2>1, <2>4, CountOne
  <2>6. QED
    BY <1>0, <1>2, <2>2, <2>4, <2>5 DEF FlightTally
<1>3. QED
  BY <1>1, <1>2

LEMMA FlightStep ==
  ASSUME TypeOK, LoopInv, AckInv, Books, TraceTypeOK, FlightTally, [TraceNext]_traceVars
  PROVE  FlightTally'
<1>1. ASSUME NEW s \in Sends, Reject(s), Record(RejectRows(s)) PROVE FlightTally'
  <2>1. \A p \in Packets : InFlight(p)' = InFlight(p)
    BY <1>1 DEF Reject, EntersSend, AfterSend, InFlight, TypeOK
  <2>2. \A q \in Packets :
          /\ Cardinality(Places(traceEvents, Opening(q)))' =
               Cardinality(Places(traceEvents, Opening(q))) + (IF q = Packet(s) THEN 0 ELSE 0)
          /\ Cardinality(Places(traceEvents, Closing(q)))' =
               Cardinality(Places(traceEvents, Closing(q))) + (IF q = Packet(s) THEN 0 ELSE 0)
          /\ Cardinality(Places(traceEvents, Opening(q))) \in Nat
          /\ Cardinality(Places(traceEvents, Closing(q))) \in Nat
    BY <1>1, RejectShows, PlacesGrow
  <2>3. QED
    BY <2>1, <2>2 DEF FlightTally
<1>2. ASSUME NEW s \in Sends, Accept(s), Record(AcceptRows(s)) PROVE FlightTally'
  <2> SUFFICES ASSUME NEW q \in Packets
               PROVE  Cardinality(Places(traceEvents, Opening(q)))' =
                        Cardinality(Places(traceEvents, Closing(q)))' + Cardinality(InFlight(q))'
    BY DEF FlightTally
  <2>1. /\ Cardinality(Places(traceEvents, Opening(q)))' =
             Cardinality(Places(traceEvents, Opening(q))) + (IF q = Packet(s) THEN 1 ELSE 0)
        /\ Cardinality(Places(traceEvents, Closing(q)))' =
             Cardinality(Places(traceEvents, Closing(q))) + (IF q = Packet(s) THEN 0 ELSE 0)
        /\ Cardinality(Places(traceEvents, Opening(q))) \in Nat
        /\ Cardinality(Places(traceEvents, Closing(q))) \in Nat
    BY <1>2, AcceptShows, PlacesGrow
  <2>2. IsFiniteSet(InFlight(q)) /\ Cardinality(InFlight(q)) \in Nat
    BY FlightFinite DEF Books
  <2>3. CASE q # Packet(s)
    <3>1. InFlight(q)' = InFlight(q)
      BY <1>2, <2>3 DEF Accept, EntersSend, InFlight, TypeOK, Packet
    <3>2. QED
      BY <2>1, <2>3, <3>1 DEF FlightTally
  <2>4. CASE q = Packet(s)
    <3>1. s \notin InFlight(q) /\ InFlight(q)' = InFlight(q) \cup {s}
      BY <1>2, <2>4 DEF Accept, EntersSend, InFlight, TypeOK, Packet
    <3>2. Cardinality(InFlight(q)') = Cardinality(InFlight(q)) + 1
      BY <2>2, <3>1, CountOne
    <3>3. QED
      BY <2>1, <2>2, <2>4, <3>2 DEF FlightTally
  <2>5. QED
    BY <2>3, <2>4
<1>3. ASSUME NEW s \in Sends, DeadLetter(s), Record(FailRows(s)) PROVE FlightTally'
  <2>1. Shows(FailRows(s), Packet(s), Task(s), 0, 1, 0)
    BY FailShows DEF TypeOK
  <2>2. pc[s] = "settled" /\ pc' = [pc EXCEPT ![s] = AfterSend(s)]
    BY <1>3 DEF DeadLetter
  <2>3. QED
    BY <1>3, <2>1, <2>2, FlightEnds
<1>4. ASSUME NEW s \in Sends, Complete(s), Record(CompleteRows(s)) PROVE FlightTally'
  <2>1. Shows(CompleteRows(s), Packet(s), Task(s), 0, 1, 1)
    BY CompleteShows DEF TypeOK
  <2>2. pc[s] = "settled" /\ pc' = [pc EXCEPT ![s] = AfterSend(s)]
    BY <1>4 DEF Complete
  <2>3. QED
    BY <1>4, <2>1, <2>2, FlightEnds
<1>5. ASSUME NEW s \in Sends, DeliverResult(s), NEW p \in ResultIds, Record(DeliverRows(s, p))
      PROVE  FlightTally'
  <2>1. \A q \in Packets : InFlight(q)' = InFlight(q)
    BY <1>5 DEF DeliverResult, InFlight
  <2>2. \A q \in Packets :
          /\ Cardinality(Places(traceEvents, Opening(q)))' =
               Cardinality(Places(traceEvents, Opening(q))) + (IF q = p THEN 0 ELSE 0)
          /\ Cardinality(Places(traceEvents, Closing(q)))' =
               Cardinality(Places(traceEvents, Closing(q))) + (IF q = p THEN 0 ELSE 0)
          /\ Cardinality(Places(traceEvents, Opening(q))) \in Nat
          /\ Cardinality(Places(traceEvents, Closing(q))) \in Nat
    BY <1>5, DeliverShows, PlacesGrow
  <2>3. QED
    BY <2>1, <2>2 DEF FlightTally
<1>6. ASSUME Untraced, UNCHANGED traceEvents PROVE FlightTally'
  <2>1. \A p \in Packets : InFlight(p)' = InFlight(p)
    BY <1>6 DEF Untraced, NoCapableRole, TimerFires, Backoff, Retry, AckReturns, Pipeline, Answers, Route,
       Settle, Awaited, Environment, RegisterRole, UnregisterRole, RemoveDeadLetter, ClearDLQ, sendVars,
       InFlight, TypeOK
  <2>2. QED
    BY <1>6, <2>1, FlightStays
<1>7. CASE UNCHANGED traceVars
  BY <1>7, FlightStays DEF traceVars, vars, sendVars, InFlight
<1>8. QED
  BY <1>1, <1>2, <1>3, <1>4, <1>5, <1>6, <1>7 DEF TraceNext

\* Rejected promises and promises just filed are not resolved ones.
LEMMA DeliveredStays ==
  ASSUME TypeOK, AckInv, PendingIsWaiting, NEW s \in Sends,
         \/ UNCHANGED ackVars
         \/ pc[s] = "idle" /\ FilePromise(s)
         \/ RejectPending(Task(s))
  PROVE  \A t \in Tasks : Delivered(t)' = Delivered(t)
<1>1. ASSUME \A u \in Sends : promise'[u] = "resolved" <=> promise[u] = "resolved"
      PROVE  \A t \in Tasks : Delivered(t)' = Delivered(t)
  BY <1>1 DEF Delivered, Task, Packet
<1>2. CASE UNCHANGED ackVars
  BY <1>1, <1>2 DEF ackVars
<1>3. CASE pc[s] = "idle" /\ FilePromise(s)
  <2>1. promise[s] = "none"
    BY <1>3 DEF AckInv
  <2>2. \A u \in Sends : promise'[u] = "resolved" <=> promise[u] = "resolved"
    BY <1>3, <2>1 DEF FilePromise, ackVars, TypeOK
  <2>3. QED
    BY <1>1, <2>2
<1>4. CASE RejectPending(Task(s))
  <2>1. Task(s) \in Tasks
    BY TaskType
  <2>2. \A u \in Sends : promise'[u] = "resolved" <=> promise[u] = "resolved"
    BY <1>4, <2>1 DEF RejectPending, PendingIsWaiting, ackVars, TypeOK
  <2>3. QED
    BY <1>1, <2>2
<1>5. QED
  BY <1>2, <1>3, <1>4

LEMMA TasksStay ==
  ASSUME TaskTally, UNCHANGED traceEvents,
         \A t \in Tasks : Answered(t)' = Answered(t) /\ Delivered(t)' = Delivered(t)
  PROVE  TaskTally'
<1>1. \A t : Completing(t)' = Completing(t)
  BY DEF Completing, Rows
<1>2. QED
  BY <1>1 DEF TaskTally, Places

\* A step that records no completed row, answers no call and resolves nothing.
LEMMA TasksGrowByNone ==
  ASSUME TraceTypeOK, TaskTally, NEW rows, NEW p, NEW t, NEW a \in Nat, NEW b \in Nat,
         Shows(rows, p, t, a, b, 0), Record(rows),
         \A u \in Tasks : Answered(u)' = Answered(u) /\ Delivered(u)' = Delivered(u)
  PROVE  TaskTally'
<1> SUFFICES ASSUME NEW u \in Tasks
             PROVE  Cardinality(Places(traceEvents, Completing(u)))' =
                      Cardinality(Answered(u))' + Cardinality(Delivered(u))'
  BY DEF TaskTally
<1>1. /\ Cardinality(Places(traceEvents, Completing(u)))' =
           Cardinality(Places(traceEvents, Completing(u))) + (IF u = t THEN 0 ELSE 0)
      /\ Cardinality(Places(traceEvents, Completing(u))) \in Nat
  BY PlacesGrow
<1>2. QED
  BY <1>1 DEF TaskTally

LEMMA TaskStep ==
  ASSUME TypeOK, LoopInv, AckInv, PendingIsWaiting, Books, TraceTypeOK, TaskTally,
         [TraceNext]_traceVars
  PROVE  TaskTally'
<1>1. \A how : outcome' = outcome => Ended(how)' = Ended(how)
  BY DEF Ended
<1>2. ASSUME NEW s \in Sends, outcome[s] = "none", NEW o \in Outcomes,
             outcome' = [outcome EXCEPT ![s] = o]
      PROVE  \A t \in Tasks :
               Answered(t)' = IF o \in Replies /\ t = Task(s) THEN Answered(t) \cup {s} ELSE Answered(t)
  <2>1. Ended(Replies)' = IF o \in Replies THEN Ended(Replies) \cup {s} ELSE Ended(Replies)
    <3>1. "none" \notin Replies
      BY DEF Replies
    <3>2. Replies' = Replies
      BY DEF Replies
    <3>3. QED
      BY <1>2, <3>1, <3>2, Ending DEF Ended
  <2>2. \A t \in Tasks : Answered(t)' = {u \in Ended(Replies)' : Task(u) = t}
    BY DEF Answered, Task, Packet
  <2>3. QED
    BY <2>1, <2>2 DEF Answered
<1>3. ASSUME NEW s \in Sends, Reject(s), Record(RejectRows(s)) PROVE TaskTally'
  <2>1. \A t \in Tasks : Answered(t)' = Answered(t)
    <3>1. outcome[s] = "none" /\ "rejected" \in Outcomes \ Replies
      BY <1>3 DEF Reject, EntersSend, LoopInv, Outcomes, Replies
    <3>2. outcome' = [outcome EXCEPT ![s] = "rejected"]
      BY <1>3 DEF Reject
    <3>3. QED
      BY <1>2, <3>1, <3>2
  <2>2. \A t \in Tasks : Delivered(t)' = Delivered(t)
    BY <1>3, DeliveredStays DEF Reject, EntersSend
  <2>3. QED
    BY <1>3, <2>1, <2>2, RejectShows, TasksGrowByNone
<1>4. ASSUME NEW s \in Sends, Accept(s), Record(AcceptRows(s)) PROVE TaskTally'
  <2>1. \A t \in Tasks : Answered(t)' = Answered(t)
    BY <1>1, <1>4 DEF Accept, Answered, Ended, Task, Packet
  <2>2. \A t \in Tasks : Delivered(t)' = Delivered(t)
    BY <1>4, DeliveredStays DEF Accept, EntersSend
  <2>3. QED
    BY <1>4, <2>1, <2>2, AcceptShows, TasksGrowByNone
<1>5. ASSUME NEW s \in Sends, DeadLetter(s), Record(FailRows(s)) PROVE TaskTally'
  <2>1. \A t \in Tasks : Answered(t)' = Answered(t)
    <3>1. outcome[s] = "none" /\ "deadLettered" \in Outcomes \ Replies
      BY <1>5 DEF DeadLetter, LoopInv, Outcomes, Replies
    <3>2. outcome' = [outcome EXCEPT ![s] = "deadLettered"]
      BY <1>5 DEF DeadLetter
    <3>3. QED
      BY <1>2, <3>1, <3>2
  <2>2. \A t \in Tasks : Delivered(t)' = Delivered(t)
    BY <1>5, DeliveredStays DEF DeadLetter
  <2>3. Shows(FailRows(s), Packet(s), Task(s), 0, 1, 0)
    BY FailShows DEF TypeOK
  <2>4. QED
    BY <1>5, <2>1, <2>2, <2>3, TasksGrowByNone
<1>6. ASSUME NEW s \in Sends, Complete(s), Record(CompleteRows(s)) PROVE TaskTally'
  <2> SUFFICES ASSUME NEW t \in Tasks
               PROVE  Cardinality(Places(traceEvents, Completing(t)))' =
                        Cardinality(Answered(t))' + Cardinality(Delivered(t))'
    BY DEF TaskTally
  <2>1. /\ outcome[s] = "none" /\ result[s] \in Replies /\ result[s] \in Outcomes
        /\ outcome' = [outcome EXCEPT ![s] = result[s]]
    BY <1>6 DEF Complete, LoopInv, Outcomes
  <2>2. Answered(t)' = IF t = Task(s) THEN Answered(t) \cup {s} ELSE Answered(t)
    BY <1>2, <2>1
  <2>3. s \notin Answered(t)
    BY <2>1 DEF Answered, Ended, Replies
  <2>4. Delivered(t)' = Delivered(t)
    BY <1>6, DeliveredStays DEF Complete
  <2>5. /\ IsFiniteSet(Answered(t)) /\ Cardinality(Answered(t)) \in Nat
        /\ Cardinality(Delivered(t)) \in Nat
    BY FlightFinite DEF Books
  <2>6. Shows(CompleteRows(s), Packet(s), Task(s), 0, 1, 1)
    BY CompleteShows DEF TypeOK
  <2>7. /\ Cardinality(Places(traceEvents, Completing(t)))' =
             Cardinality(Places(traceEvents, Completing(t))) + (IF t = Task(s) THEN 1 ELSE 0)
        /\ Cardinality(Places(traceEvents, Completing(t))) \in Nat
    BY <1>6, <2>6, PlacesGrow
  <2>8. Cardinality(Answered(t)') = Cardinality(Answered(t)) + (IF t = Task(s) THEN 1 ELSE 0)
    BY <2>2, <2>3, <2>5, CountOne
  <2>9. QED
    BY <2>4, <2>5, <2>7, <2>8 DEF TaskTally
<1>7. ASSUME NEW s \in Sends, DeliverResult(s), NEW p \in ResultIds, Record(DeliverRows(s, p))
      PROVE  TaskTally'
  <2> DEFINE u == pendingAcks[Task(s)]
  <2>1. Answered(Task(s))' = Answered(Task(s)) /\ \A t \in Tasks : Answered(t)' = Answered(t)
    BY <1>1, <1>7 DEF DeliverResult, Answered, Ended, Task, Packet
  <2>2. CASE u = NoSend
    <3>1. Shows(DeliverRows(s, p), p, Task(s), 0, 0, 0)
      BY <2>2, DeliverShows
    <3>2. \A t \in Tasks : Delivered(t)' = Delivered(t)
      BY <1>7, <2>2, DeliveredStays DEF DeliverResult
    <3>3. QED
      BY <1>7, <2>1, <3>1, <3>2, TasksGrowByNone
  <2>3. CASE u # NoSend
    <3> SUFFICES ASSUME NEW t \in Tasks
                 PROVE  Cardinality(Places(traceEvents, Completing(t)))' =
                          Cardinality(Answered(t))' + Cardinality(Delivered(t))'
      BY DEF TaskTally
    <3>1. u \in Sends /\ promise[u] = "pending" /\ Task(u) = Task(s)
      BY <2>3, TaskType DEF PendingIsWaiting, TypeOK
    <3>2. promise' = [promise EXCEPT ![u] = "resolved"]
      BY <1>7, <2>3 DEF DeliverResult
    <3>3. Shows(DeliverRows(s, p), p, Task(s), 0, 0, 1)
      BY <2>3, DeliverShows
    <3> HIDE DEF u
    <3>4. Delivered(t)' = IF t = Task(s) THEN Delivered(t) \cup {u} ELSE Delivered(t)
      BY <3>1, <3>2 DEF Delivered, Task, Packet, TypeOK
    <3>5. u \notin Delivered(t)
      BY <3>1 DEF Delivered
    <3>6. /\ IsFiniteSet(Delivered(t)) /\ Cardinality(Delivered(t)) \in Nat
          /\ Cardinality(Answered(t)) \in Nat
      BY FlightFinite DEF Books
    <3>7. Cardinality(Delivered(t)') = Cardinality(Delivered(t)) + (IF t = Task(s) THEN 1 ELSE 0)
      BY <3>4, <3>5, <3>6, CountOne
    <3>8. /\ Cardinality(Places(traceEvents, Completing(t)))' =
               Cardinality(Places(traceEvents, Completing(t))) + (IF t = Task(s) THEN 1 ELSE 0)
          /\ Cardinality(Places(traceEvents, Completing(t))) \in Nat
      BY <1>7, <3>3, PlacesGrow
    <3>9. QED
      BY <2>1, <3>6, <3>7, <3>8 DEF TaskTally
  <2>4. QED
    BY <2>2, <2>3
<1>8. ASSUME Untraced, UNCHANGED traceEvents PROVE TaskTally'
  <2>1. \A t \in Tasks : Answered(t)' = Answered(t)
    <3>1. ASSUME NEW s \in Sends, NoCapableRole(s) PROVE \A t \in Tasks : Answered(t)' = Answered(t)
      <4>1. outcome[s] = "none" /\ "noRole" \in Outcomes \ Replies
        BY <3>1 DEF NoCapableRole, LoopInv, Outcomes, Replies
      <4>2. outcome' = [outcome EXCEPT ![s] = "noRole"]
        BY <3>1 DEF NoCapableRole
      <4>3. QED
        BY <1>2, <4>1, <4>2
    <3>2. (\E s \in Sends : NoCapableRole(s)) \/ UNCHANGED outcome
      BY <1>8 DEF Untraced, TimerFires, Backoff, Retry, AckReturns, Pipeline, Answers, Route, Settle,
         Environment, RegisterRole, UnregisterRole, RemoveDeadLetter, ClearDLQ, sendVars
    <3>3. QED
      BY <3>1, <3>2 DEF Answered, Ended, Task, Packet
  <2>2. \A t \in Tasks : Delivered(t)' = Delivered(t)
    <3>1. ASSUME NEW s \in Sends,
                 \/ NoCapableRole(s)
                 \/ TimerFires(s) \/ Backoff(s) \/ Retry(s) \/ AckReturns(s) \/ Pipeline(s)
          PROVE  UNCHANGED ackVars \/ RejectPending(Task(s))
      BY <3>1 DEF NoCapableRole, TimerFires, Backoff, Retry, AckReturns, Pipeline, Answers, Route, Settle
    <3>2. ASSUME Environment PROVE \A t \in Tasks : Delivered(t)' = Delivered(t)
      BY <3>2 DEF Environment, RegisterRole, UnregisterRole, RemoveDeadLetter, ClearDLQ, ackVars,
         Delivered, Task, Packet
    <3>3. QED
      BY <1>8, <3>1, <3>2, DeliveredStays DEF Untraced
  <2>3. QED
    BY <1>8, <2>1, <2>2, TasksStay
<1>9. CASE UNCHANGED traceVars
  BY <1>9, TasksStay DEF traceVars, vars, sendVars, ackVars, Answered, Ended, Delivered, Task, Packet
<1>10. QED
  BY <1>3, <1>4, <1>5, <1>6, <1>7, <1>8, <1>9 DEF TraceNext

\* The three tallies, which only hold together with the invariant of the send path.
Tallies == /\ TraceTypeOK
           /\ StatsTally(traceEvents)
           /\ FlightTally
           /\ TaskTally

LEMMA TalliesHold == TraceSpec => []Tallies
<1>1. TraceInit => Tallies
  <2> SUFFICES ASSUME TraceInit PROVE Tallies
    OBVIOUS
  <2>1. /\ traceEvents = <<>>
        /\ \A p : InFlight(p) = {}
        /\ \A t : Answered(t) = {} /\ Delivered(t) = {}
    BY DEF TraceInit, Init, InFlight, Answered, Ended, Replies, Delivered
  <2>2. \A R : Cardinality(Places(traceEvents, R)) = 0
    BY <2>1, FS_EmptySet DEF Places
  <2>3. FlightTally /\ TaskTally
    <3>1. Cardinality({}) = 0
      BY FS_EmptySet
    <3>2. /\ \A p : Cardinality(InFlight(p)) = 0
          /\ \A t : Cardinality(Answered(t)) = 0 /\ Cardinality(Delivered(t)) = 0
      BY <2>1, <3>1
    <3>3. QED
      BY <2>2, <3>2 DEF FlightTally, TaskTally
  <2>4. TraceTypeOK /\ StatsTally(traceEvents)
    <3>1. Ended({"noRole"}) = {} /\ stats.failed = 0
      BY DEF TraceInit, Init, Ended
    <3>2. TracedFailures = 0
      BY <3>1, FS_EmptySet DEF TracedFailures
    <3>3. QED
      BY <2>1, <3>2, EmptyTally DEF TraceInit, Init, TraceTypeOK, StatsTally
  <2>5. QED
    BY <2>3, <2>4 DEF Tallies
<1>2. IInv /\ Books /\ Tallies /\ [TraceNext]_traceVars => Tallies'
  BY AuditStep, FlightStep, TaskStep DEF Tallies, IInv
<1>3. QED
  BY <1>1, <1>2, TraceKeepsSendPath, Invariance, BooksInvariant, PTL DEF TraceSpec

\* For every number of calls and attempts, the counters that getStats() answers
\* are those anyone can count in trace_events, but packetsFailed: it exceeds its
\* rows by the calls of sendToCapability() that found no role, and only by them.
THEOREM TraceAuditsStats == TraceSpec => []TraceIsAudit
<1>1. TypeOK /\ LoopInv /\ Books /\ Tallies => TraceIsAudit
  <2> SUFFICES ASSUME TypeOK, LoopInv, Books, Tallies PROVE TraceIsAudit
    OBVIOUS
  <2>1. Cardinality(Ended({"noRole"})) \in Nat /\ stats.failed \in Nat
    BY EndedFinite DEF Books, TypeOK, RuntimeStats
  <2>2. QED
    BY <2>1 DEF Tallies, StatsTally, TracedFailures, Tally, TraceIsAudit
<1>2. IInv => TypeOK /\ LoopInv
  BY DEF IInv
<1>3. QED
  BY <1>1, <1>2, TalliesHold, TraceKeepsSendPath, Invariance, BooksInvariant, PTL

\* Whoever reads the rows of a packet sees how many of its calls are under way.
THEOREM CallsUnderWayAreVisible == TraceSpec => []InFlightIsVisible
<1>1. Tallies => InFlightIsVisible
  BY TalliesSayIt DEF Tallies
<1>2. QED
  BY <1>1, TalliesHold, PTL

\* The completed rows of a task are its answers and the results that arrived.
THEOREM CompletionsAddUp == TraceSpec => []TaskCompletions
<1>1. Tallies => TaskCompletions
  BY TalliesSayIt DEF Tallies
<1>2. QED
  BY <1>1, TalliesHold, PTL
=============================================================================
