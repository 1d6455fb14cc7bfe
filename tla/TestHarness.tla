----------------------------- MODULE TestHarness -----------------------------
(***************************************************************************)
(* The AHP test harness of src/experimental/ahp-test-harness: AHPTestBus,  *)
(* which sends tasks for Maestro, retries them and turns envelopes into    *)
(* events, and AHPTestAgentHost, which runs the agents, with the envelopes *)
(* between them.  The fault injector and the socket delay, reorder, repeat *)
(* and lose envelopes: an envelope in flight is delivered whenever the     *)
(* model likes, again while copies last, or never.  The in-memory          *)
(* transport is the case where every envelope arrives at once and once.    *)
(***************************************************************************)
EXTENDS Naturals, FiniteSets, Sequences

CONSTANTS
  Tasks,        \* taskIds
  Idempotent,   \* the tasks that may be sent again (idempotent !== false)
  MaxRetries,   \* timeouts.maxIdempotentRetries
  AgentKinds,   \* the kinds of envelope the agent's handler sends
  MaxCalls,     \* bound: context calls of one agent handler
  MaxCopies,    \* bound: extra copies the network delivers
  MaxRestarts   \* bound: restarts of the bus

ASSUME HarnessAssumption ==
  /\ Idempotent \subseteq Tasks
  /\ AgentKinds \subseteq {"accept", "progress", "completed", "failed", "cancelled"}
  /\ MaxRetries \in Nat /\ MaxCalls \in Nat /\ MaxCopies \in Nat /\ MaxRestarts \in Nat

VARIABLES
  \* AHPTestBus
  session,        \* a session is open
  restarting,     \* restart() is waiting for the transport to disconnect
  attempts,       \* TaskState.attempts; 0 for a task that was never sent
  sending,        \* tasks whose dispatchTask() is waiting for the transport
  accepted, terminal, cancelRequested,  \* tasks with that flag of TaskState
  ackTimer, inactivityTimer,            \* tasks with that timer set
  seen,           \* seenMessageIds
  events,         \* the events Maestro has been given about each task
  \* AHPTestAgentHost
  agent,          \* the agent has been registered
  runtimes,       \* tasks that have a TaskRuntime
  hostAccepted, hostTerminal, hostCancelled,  \* tasks with that flag of TaskRuntime
  handler,        \* tasks whose handler has not returned
  cancelTimer,    \* tasks for which handleTaskCancel's timer is set
  \* the network
  up, down,       \* envelopes in flight to the host and to the bus
  emitted,        \* number of envelopes the host has created for each task
  copies,         \* copies delivered so far
  \* history
  restarts,       \* how often the bus has restarted
  calls,          \* context calls of each handler
  invoked,        \* how often each task's handler has been invoked
  caught,         \* tasks whose dispatchTask() was waiting when they were cancelled
  unsent          \* tasks for which the transport has thrown

timers   == <<ackTimer, inactivityTimer>>
flags    == <<accepted, terminal, cancelRequested>>
busVars  == <<session, restarting, attempts, sending, flags, timers, seen, events>>
hostVars == <<agent, runtimes, hostAccepted, hostTerminal, hostCancelled, handler,
              cancelTimer, emitted, calls, invoked>>
pastVars == <<restarts, caught, unsent>>
vars     == <<busVars, hostVars, up, down, copies, pastVars>>

\* task.partial_output is handled as task.progress is.
Kinds == {"accept", "progress", "completed", "failed", "cancelled"}

Terminals == {"completed", "failed", "cancelled"}

Send(t, n) == [kind |-> "send", task |-> t, attempt |-> n]
Cancel(t)  == [kind |-> "cancel", task |-> t, attempt |-> 1]

Outbound  == [kind : {"send", "cancel"}, task : Tasks, attempt : Nat]
Inbound   == [kind : Kinds, task : Tasks, id : Nat]
TestEvent == [type : Kinds, id : Nat, epoch : Nat]

TypeOK ==
  /\ session \in BOOLEAN
  /\ restarting \in BOOLEAN
  /\ attempts \in [Tasks -> 0..(MaxRetries + 1)]
  /\ sending \subseteq Tasks
  /\ accepted \subseteq Tasks /\ terminal \subseteq Tasks /\ cancelRequested \subseteq Tasks
  /\ ackTimer \subseteq Tasks /\ inactivityTimer \subseteq Tasks
  /\ seen \subseteq Tasks \X Nat
  /\ events \in [Tasks -> Seq(TestEvent)]
  /\ agent \in BOOLEAN
  /\ runtimes \subseteq Tasks
  /\ hostAccepted \subseteq Tasks /\ hostTerminal \subseteq Tasks /\ hostCancelled \subseteq Tasks
  /\ handler \subseteq Tasks
  /\ cancelTimer \subseteq Tasks
  /\ up \subseteq Outbound
  /\ down \subseteq Inbound
  /\ emitted \in [Tasks -> Nat]
  /\ copies \in 0..MaxCopies
  /\ restarts \in Nat
  /\ calls \in [Tasks -> Nat]
  /\ invoked \in [Tasks -> Nat]
  /\ caught \subseteq Tasks
  /\ unsent \subseteq Tasks

Init ==
  /\ session = FALSE
  /\ restarting = FALSE
  /\ attempts = [t \in Tasks |-> 0]
  /\ sending = {}
  /\ accepted = {} /\ terminal = {} /\ cancelRequested = {}
  /\ ackTimer = {} /\ inactivityTimer = {}
  /\ seen = {}
  /\ events = [t \in Tasks |-> <<>>]
  /\ agent = FALSE
  /\ runtimes = {}
  /\ hostAccepted = {} /\ hostTerminal = {} /\ hostCancelled = {}
  /\ handler = {}
  /\ cancelTimer = {}
  /\ up = {}
  /\ down = {}
  /\ emitted = [t \in Tasks |-> 0]
  /\ copies = 0
  /\ restarts = 0
  /\ calls = [t \in Tasks |-> 0]
  /\ invoked = [t \in Tasks |-> 0]
  /\ caught = {}
  /\ unsent = {}

-----------------------------------------------------------------------------
\* AHPTestBus: sessions.

\* connect() and its handshake; one that fails changes nothing here.
Connect ==
  /\ ~session
  /\ session' = TRUE
  /\ UNCHANGED <<restarting, attempts, sending, flags, timers, seen, events, hostVars,
                 up, down, copies, pastVars>>

RegisterAgent ==
  /\ session /\ ~agent
  /\ agent' = TRUE
  /\ UNCHANGED <<busVars, runtimes, hostAccepted, hostTerminal, hostCancelled, handler,
                 cancelTimer, emitted, calls, invoked, up, down, copies, pastVars>>

\* restart() up to its await: the bus works on while the transport disconnects.
RestartBegins ==
  /\ session /\ ~restarting
  /\ restarts < MaxRestarts
  /\ restarting' = TRUE
  /\ UNCHANGED <<session, attempts, sending, flags, timers, seen, events, hostVars,
                 up, down, copies, pastVars>>

\* The rest of restart(): every timer is cleared, the tasks stay.
RestartEnds ==
  /\ restarting
  /\ restarting' = FALSE
  /\ session' = FALSE
  /\ ackTimer' = {} /\ inactivityTimer' = {}
  /\ seen' = {}
  /\ restarts' = restarts + 1
  /\ UNCHANGED <<attempts, sending, flags, events, hostVars, up, down, copies, caught, unsent>>

-----------------------------------------------------------------------------
\* AHPTestBus: sending and cancelling tasks.

\* dispatchTask() up to its await.
Dispatch(t) ==
  /\ attempts' = [attempts EXCEPT ![t] = @ + 1]
  /\ up' = up \cup {Send(t, attempts[t] + 1)}
  /\ sending' = sending \cup {t}

\* sendTask(): a taskId that is known already is ignored.
SendTask(t) ==
  /\ session
  /\ attempts[t] = 0
  /\ Dispatch(t)
  /\ UNCHANGED <<session, restarting, flags, timers, seen, events, hostVars, down, copies, pastVars>>

\* Mutant: the inactivity timer is left to the first envelope that arrives.
SentArmsAckOnly(t) ==
  /\ t \in sending
  /\ sending' = sending \ {t}
  /\ ackTimer' = ackTimer \cup {t}
  /\ UNCHANGED <<session, restarting, attempts, flags, inactivityTimer, seen, events, hostVars,
                 up, down, copies, pastVars>>

\* The rest of dispatchTask(): both timers are set, whatever happened meanwhile.
Sent(t) ==
  /\ t \in sending
  /\ sending' = sending \ {t}
  /\ ackTimer' = ackTimer \cup {t}
  /\ inactivityTimer' = inactivityTimer \cup {t}
  /\ UNCHANGED <<session, restarting, attempts, flags, seen, events, hostVars, up, down,
                 copies, pastVars>>

\* The transport throws, and so does dispatchTask(): no timer is set.  For the
\* retry of the ack timer, which awaits nothing, this is an unhandled rejection;
\* that the process survives it is assumed.
SendThrows(t) ==
  /\ t \in sending
  /\ sending' = sending \ {t}
  /\ unsent' = unsent \cup {t}
  /\ UNCHANGED <<session, restarting, attempts, flags, timers, seen, events, hostVars, up, down,
                 copies, restarts, caught>>

\* Mutant: the timer that would send the task again stays set.
CancelKeepsAckTimer(t) ==
  /\ attempts[t] > 0
  /\ t \notin terminal \cup cancelRequested
  /\ cancelRequested' = cancelRequested \cup {t}
  /\ up' = up \cup {Cancel(t)}
  /\ caught' = IF t \in sending THEN caught \cup {t} ELSE caught
  /\ UNCHANGED <<session, restarting, attempts, sending, accepted, terminal, timers,
                 seen, events, hostVars, down, copies, restarts, unsent>>

\* cancelTask(): once for a task, and not after its end.
CancelTask(t) ==
  /\ attempts[t] > 0
  /\ t \notin terminal \cup cancelRequested
  /\ cancelRequested' = cancelRequested \cup {t}
  /\ ackTimer' = ackTimer \ {t}
  /\ up' = up \cup {Cancel(t)}
  /\ caught' = IF t \in sending THEN caught \cup {t} ELSE caught
  /\ UNCHANGED <<session, restarting, attempts, sending, accepted, terminal, inactivityTimer,
                 seen, events, hostVars, down, copies, restarts, unsent>>

-----------------------------------------------------------------------------
\* AHPTestBus: timers.

\* emitEvent(); id 0 stands for the bus itself.
Emit(t, type, id) ==
  events' = [events EXCEPT ![t] = Append(@, [type |-> type, id |-> id, epoch |-> restarts])]

\* Mutant: the task's timers are cleared, its flag is not set.
FinishForgetsFlag(t) ==
  /\ terminal' = terminal
  /\ ackTimer' = ackTimer \ {t}
  /\ inactivityTimer' = inactivityTimer \ {t}

\* finishTask() and the terminal flag.
Finish(t) ==
  /\ terminal' = terminal \cup {t}
  /\ ackTimer' = ackTimer \ {t}
  /\ inactivityTimer' = inactivityTimer \ {t}

Retries(t) == t \in Idempotent /\ attempts[t] <= MaxRetries

\* The ack timer has nothing to do any more.
AckTimerIdle(t) ==
  /\ t \in ackTimer
  /\ t \in accepted \cup terminal
  /\ ackTimer' = ackTimer \ {t}
  /\ UNCHANGED <<session, restarting, attempts, sending, flags, inactivityTimer, seen, events,
                 hostVars, up, down, copies, pastVars>>

\* Mutant: one retry too many.
AckTimerRetriesOnce(t) ==
  /\ t \in ackTimer
  /\ t \notin accepted \cup terminal
  /\ t \in Idempotent /\ attempts[t] <= MaxRetries + 1
  /\ ackTimer' = ackTimer \ {t}
  /\ Dispatch(t)
  /\ UNCHANGED <<session, restarting, flags, inactivityTimer, seen, events, hostVars,
                 down, copies, pastVars>>

\* No TASK_ACCEPTED in time: the task is sent again, without an await ...
AckTimerRetries(t) ==
  /\ t \in ackTimer
  /\ t \notin accepted \cup terminal
  /\ Retries(t)
  /\ ackTimer' = ackTimer \ {t}
  /\ Dispatch(t)
  /\ UNCHANGED <<session, restarting, flags, inactivityTimer, seen, events, hostVars,
                 down, copies, pastVars>>

\* ... or fails with TASK_ACK_TIMEOUT.
AckTimerFails(t) ==
  /\ t \in ackTimer
  /\ t \notin accepted \cup terminal
  /\ ~Retries(t)
  /\ Finish(t)
  /\ Emit(t, "failed", 0)
  /\ UNCHANGED <<session, restarting, attempts, sending, accepted, cancelRequested, seen,
                 hostVars, up, down, copies, pastVars>>

\* The inactivity timer: TASK_INACTIVITY_TIMEOUT, unless the task is over.  Each
\* report of the agent sets it anew; that it fires in the end although it may be
\* set anew at any time rests on MaxCalls, which bounds the reports.
InactivityTimer(t) ==
  /\ t \in inactivityTimer
  /\ IF t \in terminal
     THEN /\ inactivityTimer' = inactivityTimer \ {t}
          /\ UNCHANGED <<terminal, ackTimer, events>>
     ELSE Finish(t) /\ Emit(t, "failed", 0)
  /\ UNCHANGED <<session, restarting, attempts, sending, accepted, cancelRequested, seen,
                 hostVars, up, down, copies, pastVars>>

-----------------------------------------------------------------------------
\* The network (faultInjection.ts and LocalTransport.ts): an envelope that is
\* delivered leaves the network unless the network keeps a copy of it.

Taken(flying, m, kept) == IF kept THEN flying ELSE flying \ {m}

Copied(kept) ==
  /\ kept => copies < MaxCopies
  /\ copies' = IF kept THEN copies + 1 ELSE copies

-----------------------------------------------------------------------------
\* AHPTestBus: receiveEnvelope(), one action for each way through it.

\* A messageId seen before, or an envelope for a task that is over.
Ignored(m) == <<m.task, m.id>> \in seen \/ m.task \in terminal

ReceiveIgnored(m, kept) ==
  /\ m \in down
  /\ Ignored(m)
  /\ seen' = seen \cup {<<m.task, m.id>>}
  /\ Copied(kept)
  /\ down' = Taken(down, m, kept)
  /\ UNCHANGED <<session, restarting, attempts, sending, flags, timers, events, hostVars, up, pastVars>>

\* Mutant: messageIds are not remembered.
ReceiveForgetsId(m, kept) ==
  /\ m \in down
  /\ ~Ignored(m)
  /\ m.kind \notin Terminals
  /\ Copied(kept)
  /\ down' = Taken(down, m, kept)
  /\ inactivityTimer' = inactivityTimer \cup {m.task}
  /\ IF m.kind = "accept"
     THEN accepted' = accepted \cup {m.task} /\ ackTimer' = ackTimer \ {m.task}
     ELSE UNCHANGED <<accepted, ackTimer>>
  /\ Emit(m.task, m.kind, m.id)
  /\ UNCHANGED <<session, restarting, attempts, sending, terminal, cancelRequested, seen, hostVars,
                 up, pastVars>>

\* task.accept, task.progress and task.partial_output; the first also stops
\* the ack timer.
ReceiveActivity(m, kept) ==
  /\ m \in down
  /\ ~Ignored(m)
  /\ m.kind \notin Terminals
  /\ seen' = seen \cup {<<m.task, m.id>>}
  /\ Copied(kept)
  /\ down' = Taken(down, m, kept)
  /\ inactivityTimer' = inactivityTimer \cup {m.task}
  /\ IF m.kind = "accept"
     THEN accepted' = accepted \cup {m.task} /\ ackTimer' = ackTimer \ {m.task}
     ELSE UNCHANGED <<accepted, ackTimer>>
  /\ Emit(m.task, m.kind, m.id)
  /\ UNCHANGED <<session, restarting, attempts, sending, terminal, cancelRequested, hostVars,
                 up, pastVars>>

\* task.completed, task.failed and task.cancelled.
ReceiveTerminal(m, kept) ==
  /\ m \in down
  /\ ~Ignored(m)
  /\ m.kind \in Terminals
  /\ seen' = seen \cup {<<m.task, m.id>>}
  /\ Copied(kept)
  /\ down' = Taken(down, m, kept)
  /\ Finish(m.task)
  /\ Emit(m.task, m.kind, m.id)
  /\ UNCHANGED <<session, restarting, attempts, sending, accepted, cancelRequested, hostVars,
                 up, pastVars>>

-----------------------------------------------------------------------------
\* AHPTestAgentHost.

\* emitTaskEnvelope(), with a new messageId, into flight.
Answer(flying, t, kind) == flying \cup {[kind |-> kind, task |-> t, id |-> emitted[t] + 1]}

Answers(t, kind) ==
  /\ down' = Answer(down, t, kind)
  /\ emitted' = [emitted EXCEPT ![t] = @ + 1]

\* handleTaskSend() for a task that has a runtime: a send that has been
\* accepted is accepted again, any other is ignored.
HandleTaskResend(m, kept) ==
  /\ m \in up /\ m.kind = "send"
  /\ m.task \in runtimes
  /\ Copied(kept)
  /\ up' = Taken(up, m, kept)
  /\ IF m.task \in hostAccepted \ hostTerminal
     THEN Answers(m.task, "accept")
     ELSE UNCHANGED <<down, emitted>>
  /\ UNCHANGED <<busVars, agent, runtimes, hostAccepted, hostTerminal, hostCancelled, handler,
                 cancelTimer, calls, invoked, pastVars>>

\* Mutant: a send is accepted before its agent is looked up.
HandleTaskUnknownAccepts(m, kept) ==
  /\ m \in up /\ m.kind = "send"
  /\ m.task \notin runtimes
  /\ ~agent
  /\ Copied(kept)
  /\ up' = Taken(up, m, kept)
  /\ Answers(m.task, "accept")
  /\ UNCHANGED <<busVars, agent, runtimes, hostAccepted, hostTerminal, hostCancelled, handler,
                 cancelTimer, calls, invoked, pastVars>>

\* handleTaskSend() without the agent: UNKNOWN_AGENT.
HandleTaskUnknown(m, kept) ==
  /\ m \in up /\ m.kind = "send"
  /\ m.task \notin runtimes
  /\ ~agent
  /\ Copied(kept)
  /\ up' = Taken(up, m, kept)
  /\ Answers(m.task, "failed")
  /\ UNCHANGED <<busVars, agent, runtimes, hostAccepted, hostTerminal, hostCancelled, handler,
                 cancelTimer, calls, invoked, pastVars>>

\* Mutant: a task is known only while its handler has not ended it.
HandleTaskSendAgain(m, kept) ==
  /\ m \in up /\ m.kind = "send"
  /\ m.task \notin runtimes \ hostTerminal
  /\ agent
  /\ Copied(kept)
  /\ up' = Taken(up, m, kept)
  /\ runtimes' = runtimes \cup {m.task}
  /\ handler' = handler \cup {m.task}
  /\ invoked' = [invoked EXCEPT ![m.task] = @ + 1]
  /\ UNCHANGED <<busVars, agent, hostAccepted, hostTerminal, hostCancelled, cancelTimer,
                 emitted, calls, down, pastVars>>

\* handleTaskSend(): the agent's handler is invoked.
HandleTaskSend(m, kept) ==
  /\ m \in up /\ m.kind = "send"
  /\ m.task \notin runtimes
  /\ agent
  /\ Copied(kept)
  /\ up' = Taken(up, m, kept)
  /\ runtimes' = runtimes \cup {m.task}
  /\ handler' = handler \cup {m.task}
  /\ invoked' = [invoked EXCEPT ![m.task] = @ + 1]
  /\ UNCHANGED <<busVars, agent, hostAccepted, hostTerminal, hostCancelled, cancelTimer,
                 emitted, calls, down, pastVars>>

\* A handler, or what it left running, calls its context: nothing stops it
\* from answering twice or after the end.
ContextCall(t, kind) ==
  /\ t \in runtimes
  /\ calls[t] < MaxCalls
  /\ calls' = [calls EXCEPT ![t] = @ + 1]
  /\ hostAccepted' = IF kind = "accept" THEN hostAccepted \cup {t} ELSE hostAccepted
  /\ hostTerminal' = IF kind \in Terminals THEN hostTerminal \cup {t} ELSE hostTerminal
  /\ Answers(t, kind)
  /\ UNCHANGED <<busVars, agent, runtimes, hostCancelled, handler, cancelTimer, invoked,
                 up, copies, pastVars>>

\* The host ends task t unless it is over, in the name of its handler or of
\* the cancellation.
HostEnds(t, kind) ==
  /\ hostTerminal' = hostTerminal \cup {t}
  /\ IF t \in hostTerminal THEN UNCHANGED <<down, emitted>> ELSE Answers(t, kind)

\* The handler returns: a cancelled task that has not answered is cancelled.
HandlerReturns(t) ==
  /\ t \in handler
  /\ handler' = handler \ {t}
  /\ IF t \in hostCancelled
     THEN HostEnds(t, "cancelled")
     ELSE UNCHANGED <<hostTerminal, down, emitted>>
  /\ UNCHANGED <<busVars, agent, runtimes, hostAccepted, hostCancelled, cancelTimer, calls,
                 invoked, up, copies, pastVars>>

\* The handler's promise is rejected: AGENT_HANDLER_THROWN.
HandlerRejects(t) ==
  /\ t \in handler
  /\ handler' = handler \ {t}
  /\ HostEnds(t, "failed")
  /\ UNCHANGED <<busVars, agent, runtimes, hostAccepted, hostCancelled, cancelTimer, calls,
                 invoked, up, copies, pastVars>>

\* The handler throws before it returns a promise: handleTaskSend() itself
\* throws and nothing is answered (the in-memory transport throws as well).
HandlerThrows(t) ==
  /\ t \in handler
  /\ handler' = handler \ {t}
  /\ UNCHANGED <<busVars, agent, runtimes, hostAccepted, hostTerminal, hostCancelled,
                 cancelTimer, emitted, calls, invoked, up, down, copies, pastVars>>

\* handleTaskCancel(): the handler is told to abort and given one turn.
HandleTaskCancel(m, kept) ==
  /\ m \in up /\ m.kind = "cancel"
  /\ Copied(kept)
  /\ up' = Taken(up, m, kept)
  /\ IF m.task \in runtimes \ (hostCancelled \cup hostTerminal)
     THEN /\ hostCancelled' = hostCancelled \cup {m.task}
          /\ cancelTimer' = cancelTimer \cup {m.task}
     ELSE UNCHANGED <<hostCancelled, cancelTimer>>
  /\ UNCHANGED <<busVars, agent, runtimes, hostAccepted, hostTerminal, handler, emitted, calls,
                 invoked, down, pastVars>>

CancelTimerFires(t) ==
  /\ t \in cancelTimer
  /\ cancelTimer' = cancelTimer \ {t}
  /\ HostEnds(t, "cancelled")
  /\ UNCHANGED <<busVars, agent, runtimes, hostAccepted, hostCancelled, handler, calls, invoked,
                 up, copies, pastVars>>

-----------------------------------------------------------------------------
Maestro ==
  \/ Connect \/ RegisterAgent \/ RestartBegins \/ RestartEnds
  \/ \E t \in Tasks : SendTask(t) \/ CancelTask(t)

\* What the event loop does to a task on the bus by itself.
Timers(t) == Sent(t) \/ AckTimerIdle(t) \/ AckTimerRetries(t) \/ AckTimerFails(t) \/ InactivityTimer(t)

Network ==
  \E kept \in BOOLEAN :
    \/ \E m \in down : ReceiveIgnored(m, kept) \/ ReceiveActivity(m, kept) \/ ReceiveTerminal(m, kept)
    \/ \E m \in up : \/ HandleTaskResend(m, kept) \/ HandleTaskUnknown(m, kept)
                     \/ HandleTaskSend(m, kept) \/ HandleTaskCancel(m, kept)

Agents ==
  \E t \in Tasks :
    \/ \E kind \in AgentKinds : ContextCall(t, kind)
    \/ HandlerReturns(t) \/ HandlerRejects(t) \/ HandlerThrows(t) \/ CancelTimerFires(t)

Next == Maestro \/ Network \/ Agents \/ \E t \in Tasks : Timers(t) \/ SendThrows(t)

Spec == Init /\ [][Next]_vars

\* Timers fire and the transport's send comes back.  Nothing is assumed of the
\* network, the agents or Maestro.
FairSpec == Spec /\ \A t \in Tasks : WF_vars(Sent(t)) /\ WF_vars(InactivityTimer(t))

-----------------------------------------------------------------------------
(***************************************************************************)
(* Properties                                                              *)
(***************************************************************************)

Ends(t) == {i \in DOMAIN events[t] : events[t][i].type \in Terminals}

\* Maestro is told the end of a task once, after everything else about it
\* (harness README: "terminal-state monotonicity under transport faults").
OneEnd == \A t \in Tasks : \A i \in Ends(t) : i = Len(events[t])

\* The bus holds a task to be over exactly when it has told Maestro so.
EndIsTold == \A t \in Tasks : t \in terminal <=> Ends(t) # {}

\* Retries, copies and restarts never invoke an agent's handler twice.
HandlerOnce == \A t \in Tasks : invoked[t] <= 1

\* A task is sent MaxRetries times more at most, and once if it must not be
\* repeated; the ack timer never runs while a send is under way.
BoundedAttempts ==
  \A t \in Tasks :
    /\ attempts[t] <= IF t \in Idempotent THEN MaxRetries + 1 ELSE 1
    /\ ~(t \in ackTimer /\ t \in sending)

\* Between two restarts an envelope gives Maestro one event, however often it
\* arrives.
EventPerEnvelope ==
  \A t \in Tasks : \A i, j \in DOMAIN events[t] :
    /\ events[t][i].id = events[t][j].id /\ events[t][i].id # 0
    /\ events[t][i].epoch = events[t][j].epoch
    => i = j

\* How the tasks' flags and timers hang together, and which events are from
\* envelopes seen since the last restart.
TaskInv ==
  \A t \in Tasks :
    /\ attempts[t] = 0 => t \notin sending \cup ackTimer \cup cancelRequested
    /\ t \in cancelRequested \ caught => t \notin sending \cup ackTimer
    /\ invoked[t] = IF t \in runtimes THEN 1 ELSE 0

SeenInv ==
  \A t \in Tasks : \A i \in DOMAIN events[t] :
    /\ events[t][i].epoch <= restarts
    /\ events[t][i].id # 0 /\ events[t][i].epoch = restarts => <<t, events[t][i].id>> \in seen

\* Whatever there is about a task, Maestro has sent it: timers, runtimes and
\* what the host keeps about them, the envelopes to the host ...
SourceInv ==
  /\ \A t \in Tasks : attempts[t] = 0 => t \notin inactivityTimer \cup terminal \cup runtimes
  /\ hostAccepted \cup hostCancelled \cup handler \cup cancelTimer \subseteq runtimes
  /\ \A m \in up : attempts[m.task] > 0

\* ... and those to the bus, of which only failures come from a host whose
\* agent was not invoked, and no two of a task have the same messageId.
FlightInv ==
  \A m \in down :
    /\ attempts[m.task] > 0
    /\ m.kind = "failed" \/ m.task \in runtimes
    /\ m.id \in 1..emitted[m.task]
    /\ \A n \in down : m.task = n.task /\ m.id = n.id => m = n

\* Until it is over, a task that was sent is in the hands of the transport or
\* has its inactivity timer set, unless the transport threw or the bus was
\* restarted.
WatchedInv ==
  \A t \in Tasks :
    attempts[t] > 0 => \/ t \in terminal \cup unsent \cup sending \cup inactivityTimer
                      \/ restarts > 0

\* The inductive invariant of the proofs in TestHarnessProofs.
IInv ==
  /\ TypeOK
  /\ OneEnd /\ EndIsTold /\ BoundedAttempts /\ EventPerEnvelope
  /\ TaskInv /\ SeenInv /\ SourceInv /\ FlightInv /\ WatchedInv

Stage ==
  [t \in Tasks |-> IF attempts[t] = 0 THEN "unknown" ELSE IF t \in terminal THEN "over" ELSE "sent"]

Told == [t \in Tasks |-> [i \in DOMAIN events[t] |-> events[t][i].type]]

Contract == INSTANCE TaskContract WITH stage <- Stage, worked <- runtimes, told <- Told

\* The bus, the host and the network between them keep TaskContract: over
\* retries, duplicates, restarts and cancellations a task's agent is set to
\* work once at most, and Maestro is told of work only after that, and of the
\* end once and last.
KeepsTaskContract == Contract!Spec

\* A cancelled task is not sent again, unless it was being sent when it was
\* cancelled.
CancelStopsRetries ==
  [][\A t \in cancelRequested \ caught : attempts'[t] = attempts[t]]_vars

\* Maestro is told the end of every task it sent, whatever the network and the
\* agent do, unless the transport threw or the bus was restarted.
EveryTaskEnds ==
  \A t \in Tasks : attempts[t] > 0 ~> Ends(t) # {} \/ t \in unsent \/ restarts > 0
=============================================================================
