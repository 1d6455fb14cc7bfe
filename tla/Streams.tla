------------------------------- MODULE Streams -------------------------------
(***************************************************************************)
(* Streaming in src/core: StreamSession and its store, openStream() and    *)
(* the handler that registerStreamRole() wraps.  The send that opens a     *)
(* stream is module Runtime's: here it may enter the handler any number of *)
(* times (its retry loop) or never (a middleware, a plain role or a nack   *)
(* answers), also after it has returned, and answer or fail.               *)
(***************************************************************************)
EXTENDS Naturals, FiniteSets, Sequences

CONSTANTS
  Streams,     \* calls of openStream(), each with a streamId of its own
  Readers,     \* iterations over a session: for await (const chunk of session)
  ReadsFrom,   \* the stream a reader iterates over
  MaxRuns,     \* bound: invocations of a stream's handler
  MaxChunks    \* bound: chunks pushed on a stream

ASSUME StreamAssumption ==
  /\ ReadsFrom \in [Readers -> Streams]
  /\ MaxRuns \in Nat
  /\ MaxChunks \in Nat

VARIABLES
  sending,   \* openStream() is "new", "sending" or has "returned"
  store,     \* streamIds in the StreamSessionStore
  ended,     \* sessions with _ended set
  queue,     \* chunks nobody has asked for
  waiters,   \* readers that wait for a chunk
  runs,      \* number of times the stream's handler has been invoked
  running,   \* those invocations whose promise has not settled
  reader,    \* what each reader is doing
  written,   \* history: every chunk enqueued
  taken      \* history: every chunk dequeued

vars == <<sending, store, ended, queue, waiters, runs, running, reader, written, taken>>

Chunk == [kind : {"chunk", "end", "error"}, value : 0..MaxChunks]

Closing == {c \in Chunk : c.kind # "chunk"}

End      == [kind |-> "end", value |-> 0]
Error    == [kind |-> "error", value |-> 0]
Value(n) == [kind |-> "chunk", value |-> n]

TypeOK ==
  /\ sending \in [Streams -> {"new", "sending", "returned"}]
  /\ store \subseteq Streams
  /\ ended \subseteq Streams
  /\ queue \in [Streams -> Seq(Chunk)]
  /\ waiters \in [Streams -> Seq(Readers)]
  /\ runs \in [Streams -> 0..MaxRuns]
  /\ running \in [Streams -> SUBSET (1..MaxRuns)]
  /\ reader \in [Readers -> {"idle", "waiting", "done", "failed", "left"}]
  /\ written \in [Streams -> Seq(Chunk)]
  /\ taken \in [Streams -> Seq(Chunk)]

Init ==
  /\ sending = [s \in Streams |-> "new"]
  /\ store = {}
  /\ ended = {}
  /\ queue = [s \in Streams |-> <<>>]
  /\ waiters = [s \in Streams |-> <<>>]
  /\ runs = [s \in Streams |-> 0]
  /\ running = [s \in Streams |-> {}]
  /\ reader = [r \in Readers |-> "idle"]
  /\ written = [s \in Streams |-> <<>>]
  /\ taken = [s \in Streams |-> <<>>]

-----------------------------------------------------------------------------
\* The session.

\* What a reader does with the chunk it gets.
Got(c) == CASE c.kind = "chunk" -> "idle"
            [] c.kind = "end"   -> "done"
            [] c.kind = "error" -> "failed"

\* Mutant: a chunk is queued although a reader waits for it.
EnqueueQueues(s, c) ==
  /\ written' = [written EXCEPT ![s] = Append(@, c)]
  /\ queue' = [queue EXCEPT ![s] = Append(@, c)]
  /\ UNCHANGED <<waiters, reader, taken>>

\* enqueue(): the first waiter gets the chunk, else it is queued.
Enqueue(s, c) ==
  /\ written' = [written EXCEPT ![s] = Append(@, c)]
  /\ IF waiters[s] # <<>>
     THEN /\ waiters' = [waiters EXCEPT ![s] = Tail(@)]
          /\ reader' = [reader EXCEPT ![Head(waiters[s])] = Got(c)]
          /\ taken' = [taken EXCEPT ![s] = Append(@, c)]
          /\ UNCHANGED queue
     ELSE /\ queue' = [queue EXCEPT ![s] = Append(@, c)]
          /\ UNCHANGED <<waiters, reader, taken>>

\* Mutant: a second closing chunk is let through.
CloseAlways(s, c) == ended' = ended \cup {s} /\ Enqueue(s, c)

\* end() and error(): only the first of them counts.
Close(s, c) ==
  /\ ended' = ended \cup {s}
  /\ IF s \in ended
     THEN UNCHANGED <<queue, waiters, reader, written, taken>>
     ELSE Enqueue(s, c)

\* push(), by any invocation of the handler, even one that has settled.
Push(s) ==
  /\ runs[s] > 0
  /\ s \notin ended
  /\ Len(written[s]) < MaxChunks
  /\ Enqueue(s, Value(Len(written[s]) + 1))
  /\ UNCHANGED <<sending, store, ended, runs, running>>

\* The handler calls end() or error() itself.
HandlerCloses(s, c) ==
  /\ runs[s] > 0
  /\ s \notin ended
  /\ Close(s, c)
  /\ UNCHANGED <<sending, store, runs, running>>

\* Mutant: the newest chunk is taken.
NextLast(s) == Len(queue[s])

\* The place of the chunk that queue.shift() takes.
NextPlace(s) == 1

\* dequeue(), called by the iterator of reader r.
Dequeue(r) ==
  LET s == ReadsFrom[r]
      c == queue[s][NextPlace(s)]
  IN  /\ sending[s] = "returned"
      /\ reader[r] = "idle"
      /\ IF queue[s] # <<>>
         THEN /\ queue' = [queue EXCEPT ![s] = Tail(@)]
              /\ reader' = [reader EXCEPT ![r] = Got(c)]
              /\ taken' = [taken EXCEPT ![s] = Append(@, c)]
              /\ UNCHANGED waiters
         ELSE /\ waiters' = [waiters EXCEPT ![s] = Append(@, r)]
              /\ reader' = [reader EXCEPT ![r] = "waiting"]
              /\ UNCHANGED <<queue, taken>>
      /\ UNCHANGED <<sending, store, ended, runs, running, written>>

\* A reader leaves its loop between two chunks.
Leave(r) ==
  /\ reader[r] = "idle"
  /\ reader' = [reader EXCEPT ![r] = "left"]
  /\ UNCHANGED <<sending, store, ended, queue, waiters, runs, running, written, taken>>

-----------------------------------------------------------------------------
\* openStream() and registerStreamRole().

\* openStream() up to its await: the session is in the store before the send.
OpenStream(s) ==
  /\ sending[s] = "new"
  /\ sending' = [sending EXCEPT ![s] = "sending"]
  /\ store' = store \cup {s}
  /\ UNCHANGED <<ended, queue, waiters, runs, running, reader, written, taken>>

\* The wrapped handler finds its session; without one it throws.  It does not
\* wait for the handler it invokes.
EnterHandler(s) ==
  /\ sending[s] # "new"
  /\ s \in store
  /\ runs[s] < MaxRuns
  /\ runs' = [runs EXCEPT ![s] = @ + 1]
  /\ running' = [running EXCEPT ![s] = @ \cup {runs[s] + 1}]
  /\ UNCHANGED <<sending, store, ended, queue, waiters, reader, written, taken>>

\* Mutant: the handler's end leaves an open session open.
SettlesQuietly(s, w, c) ==
  /\ w \in running[s]
  /\ running' = [running EXCEPT ![s] = @ \ {w}]
  /\ store' = store \ {s}
  /\ UNCHANGED <<sending, ended, queue, waiters, runs, reader, written, taken>>

\* The handler's promise settles: resolved it ends the session, rejected it
\* fails it, if nothing has done so before.
HandlerSettles(s, w, c) ==
  /\ w \in running[s]
  /\ running' = [running EXCEPT ![s] = @ \ {w}]
  /\ Close(s, c)
  /\ store' = store \ {s}
  /\ UNCHANGED <<sending, runs>>

\* send() answers with something other than an error.report.
OpenAnswered(s) ==
  /\ sending[s] = "sending"
  /\ sending' = [sending EXCEPT ![s] = "returned"]
  /\ UNCHANGED <<store, ended, queue, waiters, runs, running, reader, written, taken>>

\* Mutant: a failed open forgets the session without failing it.
OpenFailsQuietly(s) ==
  /\ sending[s] = "sending"
  /\ sending' = [sending EXCEPT ![s] = "returned"]
  /\ store' = store \ {s}
  /\ UNCHANGED <<ended, queue, waiters, runs, running, reader, written, taken>>

\* send() answers with an error.report: the session fails.
OpenFails(s) ==
  /\ sending[s] = "sending"
  /\ sending' = [sending EXCEPT ![s] = "returned"]
  /\ Close(s, Error)
  /\ store' = store \ {s}
  /\ UNCHANGED <<runs, running>>

-----------------------------------------------------------------------------
Settles(s) == \E w \in 1..MaxRuns, c \in {End, Error} : HandlerSettles(s, w, c)

Returns(s) == OpenAnswered(s) \/ OpenFails(s)

Next ==
  \/ \E s \in Streams :
       \/ OpenStream(s) \/ EnterHandler(s) \/ Push(s)
       \/ \E c \in {End, Error} : HandlerCloses(s, c)
       \/ Settles(s) \/ Returns(s)
  \/ \E r \in Readers : Dequeue(r) \/ Leave(r)

Spec == Init /\ [][Next]_vars

\* send() returns, a handler that runs settles some day, and a reader that
\* has not left asks for the next chunk.
FairSpec == /\ Spec
            /\ \A s \in Streams : WF_vars(Settles(s)) /\ WF_vars(Returns(s))
            /\ \A r \in Readers : WF_vars(Dequeue(r))

-----------------------------------------------------------------------------
(***************************************************************************)
(* Properties                                                              *)
(***************************************************************************)

\* What has been written is what has been taken and what is queued, in order.
Fifo ==
  \A s \in Streams :
    /\ Len(written[s]) = Len(taken[s]) + Len(queue[s])
    /\ \A i \in 1..Len(taken[s]) : taken[s][i] = written[s][i]
    /\ \A i \in 1..Len(queue[s]) : queue[s][i] = written[s][Len(taken[s]) + i]

\* No reader waits while a chunk is queued; whoever waits is a waiter once.
NobodyWaitsInVain ==
  \A s \in Streams :
    /\ queue[s] # <<>> => waiters[s] = <<>>
    /\ \A i \in 1..Len(waiters[s]) :
         /\ reader[waiters[s][i]] = "waiting"
         /\ ReadsFrom[waiters[s][i]] = s
         /\ \A k \in 1..Len(waiters[s]) : waiters[s][i] = waiters[s][k] => i = k

\* A session has ended exactly when its last chunk, and no other, closes it,
\* whichever of end(), error(), the handlers' ends and the failed open came
\* first.
ClosedOnce ==
  \A s \in Streams :
    /\ s \in ended <=> \E i \in 1..Len(written[s]) : written[s][i] \in Closing
    /\ \A i \in 1..Len(written[s]) : written[s][i] \in Closing => i = Len(written[s])

\* streamSession.ts:74: the store "tracks all active sessions": one that has
\* been opened and has not ended can be found by its streamId.
ActiveIsTracked ==
  \A s \in Streams : sending[s] # "new" /\ s \notin ended => s \in store

\* The inductive invariant of the safety proofs.
IInv == TypeOK /\ Fifo /\ NobodyWaitsInVain /\ ClosedOnce

\* No other reader reads the stream of r.
Sole(r) == \A q \in Readers : ReadsFrom[q] = ReadsFrom[r] => q = r

\* What the proof of its end needs besides: a session that its handlers left
\* open has one at work, nothing happens to a session before openStream(), ...
WorkInv ==
  \A s \in Streams :
    /\ running[s] # {} => runs[s] > 0
    /\ runs[s] > 0 /\ s \notin ended => running[s] # {}
    /\ runs[s] > 0 \/ s \in ended => sending[s] # "new"

\* ... and a sole reader that is not through has not been given a closing chunk.
SoleInv ==
  \A r \in Readers : Sole(r) =>
    /\ reader[r] = "waiting" => waiters[ReadsFrom[r]] # <<>>
    /\ reader[r] \in {"idle", "waiting"} =>
         \A i \in 1..Len(taken[ReadsFrom[r]]) : taken[ReadsFrom[r]][i] \notin Closing

\* The only reader of a stream gets to its end once a handler has been invoked
\* on it or its open has failed.
SoleReaderFinishes ==
  \A r \in Readers : Sole(r) =>
      (runs[ReadsFrom[r]] > 0 \/ ReadsFrom[r] \in ended ~> reader[r] \in {"done", "failed", "left"})

\* Session s as a StreamChannel.
Channel(s) == INSTANCE StreamChannel
                WITH Chunks <- Chunk, written <- written[s], read <- taken[s]

\* Every session starts as an empty channel, and every step of the system is a
\* step of the channel or leaves it alone.
IsChannel ==
  /\ \A s \in Streams : Channel(s)!Init
  /\ [][\A s \in Streams :
          Channel(s)!Next \/ UNCHANGED <<written[s], taken[s]>>]_<<written, taken>>
=============================================================================
