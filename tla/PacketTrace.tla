----------------------------- MODULE PacketTrace -----------------------------
(***************************************************************************)
(* The trace that the send path of module Runtime leaves in the table      *)
(* trace_events.  Every step of Runtime is taken over as it is; this       *)
(* module adds the rows that the step records.  Rows are only inserted, in *)
(* the order of time, and an INSERT of the trace store does not fail.      *)
(***************************************************************************)
EXTENDS Runtime, Sequences

\* The packetIds that results passed to deliverResult() can carry: a handler
\* makes them up, and may even reuse the packetId of what it was sent.
CONSTANT ResultIds

ASSUME PacketTraceAssumption == ResultIds # {}

VARIABLE traceEvents  \* the rows, first to last

traceVars == <<vars, traceEvents>>

\* The "packet.completed" of deliverResult(), whose details, {via:
\* "deliverResult"}, tell it from the one of send().
Delivery == "packet.completed via deliverResult"

Events == {"packet.dispatched", "packet.received", "packet.rejected",
           "packet.validated", "packet.routed", "packet.delivered",
           "handler.started", "handler.finished", "handler.threw",
           "packet.completed", "packet.failed", "packet.acked", "packet.nacked",
           Delivery}

\* The columns that matter here; attempts is 0 where the details have none.
Rows == [packetId : Packets \cup ResultIds, taskId : Tasks, event : Events, attempts : Nat]

TraceTypeOK == traceEvents \in Seq(Rows)

Row(p, t, e, n) == [packetId |-> p, taskId |-> t, event |-> e, attempts |-> n]

\* record() called by send() or dispatch() for the packet of call s.
Event(s, e) == Row(Packet(s), Task(s), e, 0)

Record(rows) == traceEvents' = traceEvents \o rows

TraceInit == Init /\ traceEvents = <<>>

-----------------------------------------------------------------------------
\* The rows of each exit and entry of send(), in the order it writes them.

DispatchRows(s) == IF Mode[s] = "dispatch" THEN <<Event(s, "packet.dispatched")>> ELSE <<>>

RejectRows(s) == DispatchRows(s) \o <<Event(s, "packet.received"), Event(s, "packet.rejected")>>

\* All of it before the first attempt: "handler.started" does not wait for the
\* middleware, nor is it written again by a retry.
AcceptRows(s) ==
  DispatchRows(s) \o
    <<Event(s, "packet.received"), Event(s, "packet.validated"), Event(s, "packet.routed"),
      Event(s, "packet.delivered"), Event(s, "handler.started")>>

\* Mutant: a dead letter is traced, the end of its handler is not.
FailRowsShort(s) == <<Row(Packet(s), Task(s), "packet.failed", attempt[s])>>

FailRows(s) ==
  <<Row(Packet(s), Task(s), "handler.threw", attempt[s]),
    Row(Packet(s), Task(s), "packet.failed", attempt[s])>>

\* "handler.finished" has details only if there was a retry.
FinishRow(s) ==
  Row(Packet(s), Task(s), "handler.finished", IF attempt[s] > 1 THEN attempt[s] ELSE 0)

ReplyRows(s) ==
  CASE result[s] = "ack"  -> <<Event(s, "packet.acked")>>
    [] result[s] = "nack" -> <<Event(s, "packet.nacked")>>
    [] OTHER              -> <<>>

\* Mutant: the retries of a packet that completed are not traced.
CompleteRowsBare(s) ==
  <<Event(s, "handler.finished"), Event(s, "packet.completed")>> \o ReplyRows(s)

CompleteRows(s) == <<FinishRow(s), Event(s, "packet.completed")>> \o ReplyRows(s)

\* Mutant: a result is traced although nobody waits for it.
DeliverRowsAlways(s, p) == <<Row(p, Task(s), Delivery, 0)>>

\* deliverResult() traces the result packet, if a promise waited for it.
DeliverRows(s, p) ==
  IF pendingAcks[Task(s)] # NoSend THEN <<Row(p, Task(s), Delivery, 0)>> ELSE <<>>

-----------------------------------------------------------------------------
\* The steps of Runtime that write no row.  One of them, NoCapableRole, counts.
Untraced ==
  \/ \E s \in Sends : NoCapableRole(s)
  \/ \E s \in Sends : TimerFires(s) \/ Backoff(s) \/ Retry(s) \/ AckReturns(s) \/ Pipeline(s)
  \/ Environment

TraceNext ==
  \/ \E s \in Sends :
       \/ Reject(s) /\ Record(RejectRows(s))
       \/ Accept(s) /\ Record(AcceptRows(s))
       \/ DeadLetter(s) /\ Record(FailRows(s))
       \/ Complete(s) /\ Record(CompleteRows(s))
       \/ DeliverResult(s) /\ \E p \in ResultIds : Record(DeliverRows(s, p))
  \/ Untraced /\ UNCHANGED traceEvents

TraceSpec == TraceInit /\ [][TraceNext]_traceVars

-----------------------------------------------------------------------------
\* The rows of trace table tr about the packets of P with an event of E.
About(tr, P, E) == {i \in 1..Len(tr) : tr[i].packetId \in P /\ tr[i].event \in E}

\* The retries that the rows of tr with an event of E tell of, as pairs.
RetriesIn(tr, E) ==
  {ia \in (1..Len(tr)) \X (2..MaxAttempts) :
     tr[ia[1]].event \in E /\ ia[2] <= tr[ia[1]].attempts}

\* The table against RuntimeStats: it forgets no retry and counts none twice,
\* and it has a row for every call that was counted as processed, dispatched,
\* dead-lettered or failed, but for the calls of sendToCapability() that found
\* no role: packetsFailed exceeds its rows by exactly these.  The rows of
\* delivered results count as no processed packet, whatever their packetId.
TraceIsAudit ==
  /\ Cardinality(About(traceEvents, Packets, {"packet.completed"})) = stats.processed
  /\ Cardinality(About(traceEvents, Packets, {"packet.rejected", "packet.failed"}))
       + Cardinality(Ended({"noRole"})) = stats.failed
  /\ Cardinality(About(traceEvents, Packets, {"packet.failed"})) = stats.deadLettered
  /\ Cardinality(About(traceEvents, Packets, {"packet.dispatched"})) = stats.dispatched
  /\ Cardinality(RetriesIn(traceEvents, {"handler.finished", "handler.threw"})) = stats.retried

InFlight(p) == {s \in Sends : Packet(s) = p /\ pc[s] \in {"awaiting", "settled", "backoff"}}

\* Whoever reads the trace of a packet sees how many of its calls have not
\* ended, however often they retried: each "handler.started" is closed by one
\* "handler.finished" or "handler.threw".
InFlightIsVisible ==
  \A p \in Packets :
    Cardinality(About(traceEvents, {p}, {"handler.started"})) =
      Cardinality(About(traceEvents, {p}, {"handler.finished", "handler.threw"}))
        + Cardinality(InFlight(p))

\* The trace of a task has one "packet.completed" for each of its calls that
\* was answered and one for each promise that a delivered result resolved.
TaskCompletions ==
  \A t \in Tasks :
    Cardinality({i \in About(traceEvents, Packets \cup ResultIds, {"packet.completed", Delivery}) :
                   traceEvents[i].taskId = t}) =
      Cardinality({s \in Ended(Replies) : Task(s) = t})
        + Cardinality({s \in Sends : promise[s] = "resolved" /\ Task(s) = t})
=============================================================================
