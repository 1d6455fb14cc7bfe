------------------------------- MODULE Runtime -------------------------------
(***************************************************************************)
(* The send path of src/core/runtime.ts: validation, the retry loop around *)
(* middleware and router, the optional timeout, statistics, the dead       *)
(* letter queue and the acknowledgement table of sendWithAck.              *)
(*                                                                         *)
(* JavaScript runs a callback to completion, so one action is one run of   *)
(* synchronous code between two awaits.  Whatever the code awaits (a       *)
(* handler, a middleware, a timer) may end at any later point, in any      *)
(* order relative to the other sends.                                      *)
(*                                                                         *)
(* Of the middleware only this is kept: a layer may answer for the layers  *)
(* below it while they still run, and may call a next() it kept long after *)
(* (module Middleware has the composition itself).  So the promise of an   *)
(* attempt and the handlers it enters have lives of their own.             *)
(***************************************************************************)
EXTENDS Integers, FiniteSets

CONSTANTS
  Sends,        \* calls of send(), dispatch(), sendWithAck() or
                \* sendToCapability(); each made once
  Packets,      \* packetIds: one packet may be sent by several calls
  Tasks,        \* taskIds
  Roles,        \* role names
  NoSend,       \* the absence of an entry in pendingAcks
  PacketOf,     \* the packet a call sends
  TaskOf,       \* packet.taskId
  TargetOf,     \* packet.target
  Mode,         \* which entry point the call uses
  WellFormed,   \* the packets that pass the validator's field checks
  HasTimeout,   \* the packets with meta.timeoutMs > 0
  MaxAttempts   \* retryPolicy.maxAttempts, the first attempt included

Modes == {"send", "ack", "dispatch", "capability"}

ASSUME RuntimeAssumption ==
  /\ PacketOf \in [Sends -> Packets]
  /\ TaskOf \in [Packets -> Tasks]
  /\ TargetOf \in [Packets -> Roles]
  /\ Mode \in [Sends -> Modes]
  /\ WellFormed \subseteq Packets
  /\ HasTimeout \subseteq Packets
  /\ MaxAttempts \in Nat \ {0}
  /\ NoSend \notin Sends

VARIABLES
  registry,     \* what each role name is registered with
  pc,           \* where each call stands
  attempt,      \* the attempt the retry loop of a call is in
  pipeline,     \* the promise of each attempt's middleware and handler
  result,       \* what the awaited attempt settled with
  outcome,      \* what the call returned
  ran,          \* calls whose handler has been entered
  delivered,    \* calls whose handler has called deliverResult
  pendingAcks,  \* taskId -> the call whose result promise is waiting
  promise,      \* the result promise of each sendWithAck call
  stats,        \* RuntimeStats
  dlqStore,     \* the store the runtime was built with
  dlq,          \* number of dead letters that hold each packet
  dropped       \* number of them the operator has removed

vars == <<registry, pc, attempt, pipeline, result, outcome, ran, delivered,
          pendingAcks, promise, stats, dlqStore, dlq, dropped>>

sendVars == <<pc, attempt, pipeline, result, outcome, ran, delivered>>
ackVars  == <<pendingAcks, promise>>
dlqVars  == <<dlqStore, dlq, dropped>>

\* What a pipeline can answer.  "report" is an error.report packet that the
\* handler returns instead of throwing: send() counts it as a success.
Replies == {"result", "ack", "nack", "report"}

\* The ways an awaited attempt can fail.
Failures == {"threw", "timeout"}

\* What send() answers: a reply of the pipeline, or an error.report of its own
\* for a packet the validator refused or for one it dead-lettered.  "noRole" is
\* sendToCapability()'s own, when no registered role has the capability.
Outcomes == Replies \cup {"rejected", "deadLettered", "noRole"}

\* What the promise of an attempt can settle with.
Settlements == Replies \cup {"threw"}

\* The outcomes that sendWithAck takes for a failed send.
Unsuccessful == {"rejected", "deadLettered", "report", "nack"}

Packet(s) == PacketOf[s]
Task(s)   == TaskOf[Packet(s)]
Target(s) == TargetOf[Packet(s)]

RuntimeStats == [processed : Nat, failed : Nat, retried : Nat,
                 deadLettered : Nat, dispatched : Nat]

TypeOK ==
  /\ registry \in [Roles -> {"absent", "accepting", "refusing"}]
  /\ pc \in [Sends -> {"idle", "awaiting", "settled", "backoff", "returned", "done"}]
  /\ attempt \in [Sends -> 0..MaxAttempts]
  /\ pipeline \in [Sends -> [1..MaxAttempts -> {"none", "open"} \cup Settlements]]
  /\ result \in [Sends -> {"none"} \cup Replies \cup Failures]
  /\ outcome \in [Sends -> {"none"} \cup Outcomes]
  /\ ran \subseteq Sends
  /\ delivered \subseteq Sends
  /\ pendingAcks \in [Tasks -> Sends \cup {NoSend}]
  /\ promise \in [Sends -> {"none", "pending", "resolved", "rejected"}]
  /\ stats \in RuntimeStats
  /\ dlqStore \in {"sqlite", "memory"}
  /\ dlq \in [Packets -> Nat]
  /\ dropped \in [Packets -> Nat]

Init ==
  /\ registry = [r \in Roles |-> "absent"]
  /\ pc = [s \in Sends |-> "idle"]
  /\ attempt = [s \in Sends |-> 0]
  /\ pipeline = [s \in Sends |-> [a \in 1..MaxAttempts |-> "none"]]
  /\ result = [s \in Sends |-> "none"]
  /\ outcome = [s \in Sends |-> "none"]
  /\ ran = {}
  /\ delivered = {}
  /\ pendingAcks = [t \in Tasks |-> NoSend]
  /\ promise = [s \in Sends |-> "none"]
  /\ stats = [processed |-> 0, failed |-> 0, retried |-> 0,
              deadLettered |-> 0, dispatched |-> 0]
  /\ dlqStore \in {"sqlite", "memory"}
  /\ dlq = [p \in Packets |-> 0]
  /\ dropped = [p \in Packets |-> 0]

-----------------------------------------------------------------------------
\* The registry.  A name can be taken once; a role lists the types it accepts.

RegisterRole(r, how) ==
  /\ registry[r] = "absent"
  /\ registry' = [registry EXCEPT ![r] = how]
  /\ UNCHANGED <<sendVars, ackVars, stats, dlqVars>>

UnregisterRole(r) ==
  /\ registry[r] # "absent"
  /\ registry' = [registry EXCEPT ![r] = "absent"]
  /\ UNCHANGED <<sendVars, ackVars, stats, dlqVars>>

-----------------------------------------------------------------------------
\* The entry points, up to the first await.

Validate(s) == Packet(s) \in WellFormed /\ registry[Target(s)] = "accepting"

\* sendWithAck files its promise under the taskId before it sends, over
\* whatever the taskId held.
FilePromise(s) ==
  IF Mode[s] = "ack"
  THEN /\ pendingAcks' = [pendingAcks EXCEPT ![Task(s)] = s]
       /\ promise' = [promise EXCEPT ![s] = "pending"]
  ELSE UNCHANGED ackVars

Dispatched(s) == IF Mode[s] = "dispatch" THEN stats.dispatched + 1 ELSE stats.dispatched

\* send() has returned; sendWithAck goes on in a later microtask.
AfterSend(s) == IF Mode[s] = "ack" THEN "returned" ELSE "done"

\* The candidates of sendToCapability().  The target stands for the one role
\* that advertises the capability; module LoadBalancer picks among several.
HasCandidate(s) == registry[Target(s)] # "absent"

\* Mutant: the early return of sendToCapability() is not counted.
NoCapableRoleUncounted(s) ==
  /\ pc[s] = "idle"
  /\ Mode[s] = "capability"
  /\ ~HasCandidate(s)
  /\ outcome' = [outcome EXCEPT ![s] = "noRole"]
  /\ pc' = [pc EXCEPT ![s] = "done"]
  /\ UNCHANGED <<registry, attempt, pipeline, result, ran, delivered, ackVars, stats, dlqVars>>

\* sendToCapability() finds no candidate: the call is counted as failed and
\* answered, send() is never entered.
NoCapableRole(s) ==
  /\ pc[s] = "idle"
  /\ Mode[s] = "capability"
  /\ ~HasCandidate(s)
  /\ outcome' = [outcome EXCEPT ![s] = "noRole"]
  /\ pc' = [pc EXCEPT ![s] = "done"]
  /\ stats' = [stats EXCEPT !.failed = @ + 1]
  /\ UNCHANGED <<registry, attempt, pipeline, result, ran, delivered, ackVars, dlqVars>>

\* The entry point goes on into send().
EntersSend(s) ==
  /\ pc[s] = "idle"
  /\ Mode[s] = "capability" => HasCandidate(s)

\* The validator refuses the packet: it is counted as failed and answered, and
\* never reaches the dead letter queue.
Reject(s) ==
  /\ EntersSend(s)
  /\ ~Validate(s)
  /\ FilePromise(s)
  /\ outcome' = [outcome EXCEPT ![s] = "rejected"]
  /\ pc' = [pc EXCEPT ![s] = AfterSend(s)]
  /\ stats' = [stats EXCEPT !.failed = @ + 1, !.dispatched = Dispatched(s)]
  /\ UNCHANGED <<registry, attempt, pipeline, result, ran, delivered, dlqVars>>

\* The packet is valid: the first attempt enters the middleware.
Accept(s) ==
  /\ EntersSend(s)
  /\ Validate(s)
  /\ FilePromise(s)
  /\ pc' = [pc EXCEPT ![s] = "awaiting"]
  /\ attempt' = [attempt EXCEPT ![s] = 1]
  /\ pipeline' = [pipeline EXCEPT ![s][1] = "open"]
  /\ stats' = [stats EXCEPT !.dispatched = Dispatched(s)]
  /\ UNCHANGED <<registry, result, outcome, ran, delivered, dlqVars>>

-----------------------------------------------------------------------------
\* The pipeline of one attempt.  It runs on after its timeout: nothing cancels
\* it, only its answer is ignored.

\* Mutants: an answer counts although its attempt has timed out, or although a
\* later attempt is awaited.
LateAnswerCounts(s, a) == attempt[s] = a
EarlierAttemptCounts(s, a) == pc[s] = "awaiting"

Awaited(s, a) == pc[s] = "awaiting" /\ attempt[s] = a

\* The promise of attempt a settles with r: the outermost layer has answered,
\* with the handler's answer, one of its own, or by throwing (also when the
\* router found no role).  The answer counts if the attempt is still awaited.
Settle(s, a, r) ==
  /\ pipeline[s][a] = "open"
  /\ pipeline' = [pipeline EXCEPT ![s][a] = r]
  /\ IF Awaited(s, a)
     THEN /\ pc' = [pc EXCEPT ![s] = "settled"]
          /\ result' = [result EXCEPT ![s] = r]
     ELSE UNCHANGED <<pc, result>>
  /\ UNCHANGED <<registry, attempt, outcome, ran, delivered, ackVars, stats, dlqVars>>

\* A layer calls next() down to the router, which finds the handler and enters
\* it: at any time after the attempt began, even when its promise has settled.
\* How long the handler runs shows in nothing but deliverResult().
Route(s, a) ==
  /\ pipeline[s][a] # "none"
  /\ registry[Target(s)] # "absent"
  /\ ran' = ran \cup {s}
  /\ UNCHANGED <<registry, pc, attempt, pipeline, result, outcome, delivered, ackVars, stats, dlqVars>>

\* Mutant: the timer covers the handler but not the middleware before it.
TimerInsideMiddleware(s) ==
  /\ pc[s] = "awaiting"
  /\ s \in ran
  /\ Packet(s) \in HasTimeout
  /\ pc' = [pc EXCEPT ![s] = "settled"]
  /\ result' = [result EXCEPT ![s] = "timeout"]
  /\ UNCHANGED <<registry, attempt, pipeline, outcome, ran, delivered, ackVars, stats, dlqVars>>

\* withTimeout's timer: the attempt is rejected, its pipeline is left running.
TimerFires(s) ==
  /\ pc[s] = "awaiting"
  /\ Packet(s) \in HasTimeout
  /\ pc' = [pc EXCEPT ![s] = "settled"]
  /\ result' = [result EXCEPT ![s] = "timeout"]
  /\ UNCHANGED <<registry, attempt, pipeline, outcome, ran, delivered, ackVars, stats, dlqVars>>

-----------------------------------------------------------------------------
\* withRetry and the rest of send() after it.

\* Mutant: only an attempt that threw is retried, and not one that timed out.
BackoffAfterThrow(s) ==
  /\ pc[s] = "settled"
  /\ result[s] = "threw"
  /\ attempt[s] < MaxAttempts
  /\ pc' = [pc EXCEPT ![s] = "backoff"]
  /\ result' = [result EXCEPT ![s] = "none"]
  /\ UNCHANGED <<registry, attempt, pipeline, outcome, ran, delivered, ackVars, stats, dlqVars>>

\* A failed attempt that is not the last sleeps before the next.
Backoff(s) ==
  /\ pc[s] = "settled"
  /\ result[s] \in Failures
  /\ attempt[s] < MaxAttempts
  /\ pc' = [pc EXCEPT ![s] = "backoff"]
  /\ result' = [result EXCEPT ![s] = "none"]
  /\ UNCHANGED <<registry, attempt, pipeline, outcome, ran, delivered, ackVars, stats, dlqVars>>

\* The backoff timer fires and the next attempt enters the middleware.
Retry(s) ==
  /\ pc[s] = "backoff"
  /\ pc' = [pc EXCEPT ![s] = "awaiting"]
  /\ attempt' = [attempt EXCEPT ![s] = @ + 1]
  /\ pipeline' = [pipeline EXCEPT ![s][attempt[s] + 1] = "open"]
  /\ UNCHANGED <<registry, result, outcome, ran, delivered, ackVars, stats, dlqVars>>

\* Mutants: SQLite replaces the row of a packet; the memory store compares no
\* packetId.
SqliteReplaces(p) == 1
MemoryInserts(p) == dlq[p] + 1

\* push() of the two stores: SQLite inserts a row each time, ...
SqlitePush(p) == dlq[p] + 1

\* ... the memory store updates the entry that already holds the packetId.
MemoryPush(p) == 1

Pushed(p) == IF dlqStore = "memory" THEN MemoryPush(p) ELSE SqlitePush(p)

\* Mutant: packetsRetried counts the first attempt too.
DeadLetterCountsAll(s) ==
  /\ pc[s] = "settled"
  /\ result[s] \in Failures
  /\ attempt[s] = MaxAttempts
  /\ pc' = [pc EXCEPT ![s] = AfterSend(s)]
  /\ result' = [result EXCEPT ![s] = "none"]
  /\ outcome' = [outcome EXCEPT ![s] = "deadLettered"]
  /\ stats' = [stats EXCEPT !.retried = @ + attempt[s],
                            !.deadLettered = @ + 1,
                            !.failed = @ + 1]
  /\ dlq' = [dlq EXCEPT ![Packet(s)] = Pushed(Packet(s))]
  /\ UNCHANGED <<registry, attempt, pipeline, ran, delivered, ackVars, dlqStore, dropped>>

\* The last attempt failed: the packet is dead-lettered and answered.
DeadLetter(s) ==
  /\ pc[s] = "settled"
  /\ result[s] \in Failures
  /\ attempt[s] = MaxAttempts
  /\ pc' = [pc EXCEPT ![s] = AfterSend(s)]
  /\ result' = [result EXCEPT ![s] = "none"]
  /\ outcome' = [outcome EXCEPT ![s] = "deadLettered"]
  /\ stats' = [stats EXCEPT !.retried = @ + (attempt[s] - 1),
                            !.deadLettered = @ + 1,
                            !.failed = @ + 1]
  /\ dlq' = [dlq EXCEPT ![Packet(s)] = Pushed(Packet(s))]
  /\ UNCHANGED <<registry, attempt, pipeline, ran, delivered, ackVars, dlqStore, dropped>>

\* Mutant: the entry of a rejected promise is kept.
RejectKeepsEntry(t) ==
  IF pendingAcks[t] # NoSend
  THEN promise' = [promise EXCEPT ![pendingAcks[t]] = "rejected"] /\ UNCHANGED pendingAcks
  ELSE UNCHANGED ackVars

\* A task.nack rejects whichever promise waits under the packet's taskId.
RejectPending(t) ==
  IF pendingAcks[t] # NoSend
  THEN /\ promise' = [promise EXCEPT ![pendingAcks[t]] = "rejected"]
       /\ pendingAcks' = [pendingAcks EXCEPT ![t] = NoSend]
  ELSE UNCHANGED ackVars

\* The attempt answered: the packet is completed.  The answer is then fanned
\* out to the subscribers (module EventBus), which changes nothing here.
Complete(s) ==
  /\ pc[s] = "settled"
  /\ result[s] \in Replies
  /\ pc' = [pc EXCEPT ![s] = AfterSend(s)]
  /\ result' = [result EXCEPT ![s] = "none"]
  /\ outcome' = [outcome EXCEPT ![s] = result[s]]
  /\ stats' = [stats EXCEPT !.retried = @ + (attempt[s] - 1),
                            !.processed = @ + 1]
  /\ IF result[s] = "nack" THEN RejectPending(Task(s)) ELSE UNCHANGED ackVars
  /\ UNCHANGED <<registry, attempt, pipeline, ran, delivered, dlqVars>>

-----------------------------------------------------------------------------
\* sendWithAck and deliverResult.

\* Mutant: only a task.nack counts as a failed send.
AckReturnsNackOnly(s) ==
  /\ pc[s] = "returned"
  /\ pc' = [pc EXCEPT ![s] = "done"]
  /\ IF outcome[s] = "nack" THEN RejectPending(Task(s)) ELSE UNCHANGED ackVars
  /\ UNCHANGED <<registry, attempt, pipeline, result, outcome, ran, delivered, stats, dlqVars>>

\* The rest of sendWithAck once send() has returned.
AckReturns(s) ==
  /\ pc[s] = "returned"
  /\ pc' = [pc EXCEPT ![s] = "done"]
  /\ IF outcome[s] \in Unsuccessful THEN RejectPending(Task(s)) ELSE UNCHANGED ackVars
  /\ UNCHANGED <<registry, attempt, pipeline, result, outcome, ran, delivered, stats, dlqVars>>

\* A handler, running or detached, delivers the result of its packet's task.
DeliverResult(s) ==
  /\ s \in ran
  /\ delivered' = delivered \cup {s}
  /\ IF pendingAcks[Task(s)] # NoSend
     THEN /\ promise' = [promise EXCEPT ![pendingAcks[Task(s)]] = "resolved"]
          /\ pendingAcks' = [pendingAcks EXCEPT ![Task(s)] = NoSend]
     ELSE UNCHANGED ackVars
  /\ UNCHANGED <<registry, pc, attempt, pipeline, result, outcome, ran, stats, dlqVars>>

-----------------------------------------------------------------------------
\* The operator's side of the dead letter queue: drop one entry, or all.

RemoveDeadLetter(p) ==
  /\ dlq[p] > 0
  /\ dlq' = [dlq EXCEPT ![p] = @ - 1]
  /\ dropped' = [dropped EXCEPT ![p] = @ + 1]
  /\ UNCHANGED <<registry, sendVars, ackVars, stats, dlqStore>>

ClearDLQ ==
  /\ dlq' = [p \in Packets |-> 0]
  /\ dropped' = [p \in Packets |-> dropped[p] + dlq[p]]
  /\ UNCHANGED <<registry, sendVars, ackVars, stats, dlqStore>>

-----------------------------------------------------------------------------
Submit(s) == NoCapableRole(s) \/ Reject(s) \/ Accept(s)

\* What the runtime does by itself: promise continuations and timers.
Continue(s) == TimerFires(s) \/ Backoff(s) \/ Retry(s) \/ DeadLetter(s) \/ Complete(s)
                 \/ AckReturns(s)

\* What middleware and handlers do, or leave undone.
Answers(s) == \E a \in 1..MaxAttempts, r \in Settlements : Settle(s, a, r)

Pipeline(s) == Answers(s) \/ \E a \in 1..MaxAttempts : Route(s, a)

Environment ==
  \/ \E r \in Roles : UnregisterRole(r) \/ \E how \in {"accepting", "refusing"} : RegisterRole(r, how)
  \/ \E p \in Packets : RemoveDeadLetter(p)
  \/ ClearDLQ

Next ==
  \/ \E s \in Sends : Submit(s) \/ Continue(s) \/ Pipeline(s) \/ DeliverResult(s)
  \/ Environment

Spec == Init /\ [][Next]_vars

\* Promise continuations and timers run; nobody has to call, and a middleware
\* or a handler may hang.
FairSpec == Spec /\ \A s \in Sends : WF_vars(Continue(s))

\* Moreover the pipelines of a call without timeoutMs answer some day; those of
\* a call with it may hang.
LiveSpec == FairSpec /\ \A s \in {u \in Sends : Packet(u) \notin HasTimeout} : WF_vars(Answers(s))

-----------------------------------------------------------------------------
(***************************************************************************)
(* Invariants                                                              *)
(***************************************************************************)

Begun(how) == {s \in Sends : Mode[s] \in how /\ pc[s] # "idle"}

Ended(how) == {s \in Sends : outcome[s] \in how}

Retries ==
  {sa \in Ended(Replies \cup {"deadLettered"}) \X (2..MaxAttempts) : sa[2] <= attempt[sa[1]]}

\* RuntimeStats counts every call once, when it returns: as processed, or as
\* failed (and dead-lettered as well unless it was refused, by the validator or
\* for want of a capable role); an attempt counts as retried only once its call
\* has returned.
Ledger ==
  /\ stats.processed = Cardinality(Ended(Replies))
  /\ stats.failed = Cardinality(Ended({"rejected", "deadLettered", "noRole"}))
  /\ stats.deadLettered = Cardinality(Ended({"deadLettered"}))
  /\ stats.retried = Cardinality(Retries)
  /\ stats.dispatched = Cardinality(Begun({"dispatch"}))

DeadLettersOf(p) == {s \in Ended({"deadLettered"}) : Packet(s) = p}

\* A dead letter stays in the queue until the operator removes it.  SQLite has
\* one row per failed call; the memory store has one entry per packet.
DeadLettersKept ==
  \A p \in Packets :
    IF dlqStore = "memory"
    THEN /\ dlq[p] <= 1
         /\ DeadLettersOf(p) # {} => dlq[p] + dropped[p] \in 1..Cardinality(DeadLettersOf(p))
         /\ DeadLettersOf(p) = {} => dlq[p] + dropped[p] = 0
    ELSE dlq[p] + dropped[p] = Cardinality(DeadLettersOf(p))

\* A call answers what the promise of its last attempt settled with, whatever
\* the promises of earlier, timed-out attempts settle with, and when.  Without
\* timeoutMs it retries, and gives up, only what threw.
AnswerOfLastAttempt ==
  \A s \in Sends :
    /\ outcome[s] \in Replies => pipeline[s][attempt[s]] = outcome[s]
    /\ Packet(s) \notin HasTimeout =>
         /\ \A a \in 1..MaxAttempts : a < attempt[s] => pipeline[s][a] = "threw"
         /\ outcome[s] = "deadLettered" => pipeline[s][MaxAttempts] = "threw"

\* Every entry of pendingAcks is a promise that still waits, of a sendWithAck
\* call for that task: resolve and reject never meet a settled promise.
PendingIsWaiting ==
  \A t \in Tasks : pendingAcks[t] # NoSend =>
    /\ promise[pendingAcks[t]] = "pending"
    /\ Task(pendingAcks[t]) = t
    /\ Mode[pendingAcks[t]] = "ack"

\* No other call uses the task of call s.
OwnTask(s) == \A u \in Sends \ {s} : Task(u) # Task(s)

\* A sendWithAck call with a task of its own: its promise can be found as long
\* as it waits; it is rejected only when the call itself failed, resolved only
\* when its own handler delivered; a call that failed leaves no promise
\* waiting, and neither does a handler that has delivered.
OwnPromise ==
  \A s \in Sends : Mode[s] = "ack" /\ OwnTask(s) =>
    /\ promise[s] = "pending" => pendingAcks[Task(s)] = s
    /\ promise[s] = "rejected" => outcome[s] \in Unsuccessful
    /\ promise[s] = "resolved" => s \in delivered
    /\ pc[s] = "done" /\ outcome[s] \in Unsuccessful => promise[s] # "pending"
    /\ s \in delivered => promise[s] # "pending"

-----------------------------------------------------------------------------
(***************************************************************************)
(* The inductive invariant of the proofs in RuntimeProofs.                 *)
(***************************************************************************)

\* How the retry loop's variables hang together.
LoopInv ==
  \A s \in Sends :
    /\ pc[s] = "idle" => attempt[s] = 0 /\ s \notin ran
    /\ pc[s] \in {"awaiting", "settled", "backoff"} => attempt[s] >= 1
    /\ pc[s] = "backoff" => attempt[s] < MaxAttempts
    /\ \A a \in 1..MaxAttempts : pipeline[s][a] = "none" <=> a > attempt[s]
    /\ result[s] # "none" <=> pc[s] = "settled"
    /\ outcome[s] # "none" <=> pc[s] \in {"returned", "done"}

\* How the awaited attempt hangs together with its promise.
AttemptInv ==
  \A s \in Sends :
    /\ result[s] \in Settlements => pipeline[s][attempt[s]] = result[s]
    /\ Packet(s) \notin HasTimeout =>
         /\ result[s] # "timeout"
         /\ pc[s] = "awaiting" => pipeline[s][attempt[s]] = "open"
         /\ pc[s] = "backoff" => pipeline[s][attempt[s]] = "threw"

\* How the promises follow the calls.
AckInv ==
  \A s \in Sends :
    /\ s \in delivered => s \in ran
    /\ Mode[s] # "ack" => promise[s] = "none" /\ pc[s] # "returned"
    /\ pc[s] = "idle" => promise[s] = "none"

IInv == /\ TypeOK
        /\ LoopInv
        /\ AckInv
        /\ AttemptInv
        /\ AnswerOfLastAttempt
        /\ PendingIsWaiting
        /\ OwnPromise

-----------------------------------------------------------------------------
(***************************************************************************)
(* Action properties, liveness and the abstract specification.             *)
(***************************************************************************)

\* What a call has returned and how its promise settled never change, and a
\* call that has returned starts no further attempt.
Final ==
  [][\A s \in Sends :
       /\ outcome[s] # "none" => outcome'[s] = outcome[s] /\ attempt'[s] = attempt[s]
       /\ promise[s] \in {"resolved", "rejected"} => promise'[s] = promise[s]]_vars

\* timeoutMs bounds a call whatever its handlers and middleware do: it returns
\* although they hang.
TimeoutBoundsCall ==
  \A s \in Sends : Packet(s) \in HasTimeout =>
    (pc[s] \notin {"idle", "done"} ~> pc[s] = "done")

Stage(s) ==
  CASE outcome[s] = "none" -> IF pc[s] = "idle" THEN "idle" ELSE "open"
    [] outcome[s] \in {"rejected", "noRole"} -> "refused"
    [] outcome[s] = "deadLettered" -> "failed"
    [] OTHER -> "answered"

Contract == INSTANCE SendContract
              WITH stage <- [s \in Sends |-> Stage(s)],
                   processed <- stats.processed,
                   failed <- stats.failed,
                   deadLettered <- stats.deadLettered

\* The send path is an implementation of SendContract, ...
KeepsContract == Contract!Spec

\* ... and one that answers every call it admits, if the pipelines of the calls
\* without timeoutMs end.
FulfilsContract == Contract!FairSpec

-----------------------------------------------------------------------------
(***************************************************************************)
(* What the documentation says                                             *)
(***************************************************************************)

\* runtime.ts:478, on sendWithAck(): "result: resolves when the handler calls
\* runtime.deliverResult()".
DeliveredResultArrives ==
  \A s \in Sends : Mode[s] = "ack" /\ s \in delivered => promise[s] # "pending"
=============================================================================
