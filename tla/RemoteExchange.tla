---------------------------- MODULE RemoteExchange ----------------------------
(***************************************************************************)
(* MailmanServer (server.ts) and RemoteMailmanClient (remoteClient.ts):    *)
(* packets sent to a runtime over HTTP.  Each request has a connection of  *)
(* its own, which may break at any time; the client gives a request up     *)
(* after its timeout, the server never does.  Behind the server every      *)
(* attempt of send() is a dispatch of the middleware.  What send() records *)
(* meanwhile, and dispatch(), are in module Runtime.                       *)
(***************************************************************************)
EXTENDS Middleware

CONSTANTS
  Posts,       \* requests of send(), to POST /packets
  Others,      \* requests to POST /dispatch, GET /roles, /health and /metrics
  MaxAttempts  \* maxAttempts of the runtime's retry policy

ASSUME RemoteAssumption ==
  /\ Posts \cap Others = {}
  /\ MaxAttempts \in Nat \ {0}
  /\ Dispatches = Posts \X (1..MaxAttempts)

Requests == Posts \cup Others

VARIABLES
  timed,      \* the posts whose packet has a timeoutMs
  client,     \* the promise of each request
  link,       \* its connection: "none", "up" or "down"
  server,     \* how far handleRequest() is with it
  attempt,    \* the attempt withRetry() is at, 0 before the first
  status,     \* the HTTP status of the response, 0 for none
  answer,     \* what the response holds
  listening   \* the HTTP server: "open", "closing" or "closed"

vars == <<mwVars, timed, client, link, server, attempt, status, answer, listening>>

TypeOK ==
  /\ MwTypeOK
  /\ timed \subseteq Posts
  /\ client \in [Requests -> {"idle", "waiting", "resolved", "rejected"}]
  /\ link \in [Requests -> {"none", "up", "down"}]
  /\ server \in [Requests -> {"none", "reading", "sending", "ended"}]
  /\ attempt \in [Posts -> 0..MaxAttempts]
  /\ status \in [Requests -> {0, 200, 202, 401, 500}]
  /\ answer \in [Requests -> {"none", "reply", "report", "other"}]
  /\ listening \in {"open", "closing", "closed"}

Init ==
  /\ MwInit
  /\ timed \in SUBSET Posts
  /\ client = [r \in Requests |-> "idle"]
  /\ link = [r \in Requests |-> "none"]
  /\ server = [r \in Requests |-> "none"]
  /\ attempt = [r \in Posts |-> 0]
  /\ status = [r \in Requests |-> 0]
  /\ answer = [r \in Requests |-> "none"]
  /\ listening = "open"

-----------------------------------------------------------------------------
\* RemoteMailmanClient.request().

Request(r) ==
  /\ client[r] = "idle"
  /\ client' = [client EXCEPT ![r] = "waiting"]
  /\ IF listening = "open"
     THEN link' = [link EXCEPT ![r] = "up"] /\ server' = [server EXCEPT ![r] = "reading"]
     ELSE link' = [link EXCEPT ![r] = "down"] /\ UNCHANGED server
  /\ UNCHANGED <<mwVars, timed, attempt, status, answer, listening>>

Settle(r, how) == client' = [client EXCEPT ![r] = how]

\* The whole response has come; a status from 400 up rejects.
Receive(r) ==
  /\ client[r] = "waiting"
  /\ link[r] = "up" /\ status[r] # 0
  /\ link' = [link EXCEPT ![r] = "down"]
  /\ Settle(r, IF status[r] >= 400 THEN "rejected" ELSE "resolved")
  /\ UNCHANGED <<mwVars, timed, server, attempt, status, answer, listening>>

\* Mutant: the timer is set when the response begins.
TimeoutOfResponse(r) ==
  /\ client[r] = "waiting" /\ link[r] = "up" /\ status[r] # 0
  /\ link' = [link EXCEPT ![r] = "down"]
  /\ Settle(r, "rejected")
  /\ UNCHANGED <<mwVars, timed, server, attempt, status, answer, listening>>

\* Mutant: the timeout rejects the promise and leaves the request alone.
TimeoutOfPromise(r) ==
  /\ client[r] = "waiting"
  /\ Settle(r, "rejected")
  /\ UNCHANGED <<mwVars, timed, link, server, attempt, status, answer, listening>>

\* The timeout destroys the request and its connection; the server is not told
\* what to do about it.
Timeout(r) ==
  /\ client[r] = "waiting"
  /\ link' = [link EXCEPT ![r] = "down"]
  /\ Settle(r, "rejected")
  /\ UNCHANGED <<mwVars, timed, server, attempt, status, answer, listening>>

\* The connection was refused or has broken: the "error" event.
Broken(r) ==
  /\ client[r] = "waiting"
  /\ link[r] = "down"
  /\ Settle(r, "rejected")
  /\ UNCHANGED <<mwVars, timed, link, server, attempt, status, answer, listening>>

\* The network.
Break(r) ==
  /\ link[r] = "up"
  /\ link' = [link EXCEPT ![r] = "down"]
  /\ UNCHANGED <<mwVars, timed, client, server, attempt, status, answer, listening>>

-----------------------------------------------------------------------------
\* MailmanServer.handleRequest().

\* sendJson() and the end of the handler.
Respond(r, code, what) ==
  /\ server' = [server EXCEPT ![r] = "ended"]
  /\ status' = [status EXCEPT ![r] = code]
  /\ answer' = [answer EXCEPT ![r] = what]

Unauthorized(r) ==
  /\ server[r] = "reading"
  /\ Respond(r, 401, "other")
  /\ UNCHANGED <<mwVars, timed, attempt, client, link, listening>>

\* readBody(), JSON.parse() or the route itself fails.
BadBody(r) ==
  /\ server[r] = "reading"
  /\ Respond(r, 500, "other")
  /\ UNCHANGED <<mwVars, timed, attempt, client, link, listening>>

\* runtime.send(): the validator refuses the packet with an error.report ...
SendRefused(r) ==
  /\ r \in Posts
  /\ server[r] = "reading"
  /\ Respond(r, 200, "report")
  /\ UNCHANGED <<mwVars, timed, attempt, client, link, listening>>

\* ... or the first attempt enters the middleware, and the handler waits.
Try(r, a) ==
  /\ attempt' = [attempt EXCEPT ![r] = a]
  /\ Enter(<<r, a>>, 0)

Send(r) ==
  /\ r \in Posts
  /\ server[r] = "reading"
  /\ server' = [server EXCEPT ![r] = "sending"]
  /\ Try(r, 1)
  /\ UNCHANGED <<timed, client, link, status, answer, listening>>

Awaited(r) == step[<<r, attempt[r]>>][0]

\* The promise of withTimeout() rejects; the attempt's layers go on.
AttemptFails(r) ==
  /\ server[r] = "sending"
  /\ Awaited(r) = "rejected" \/ r \in timed

\* withRetry() tries again, after its backoff.
Retry(r) ==
  /\ AttemptFails(r)
  /\ attempt[r] < MaxAttempts
  /\ Try(r, attempt[r] + 1)
  /\ UNCHANGED <<timed, client, link, server, status, answer, listening>>

\* runtime.dispatch() returns at once, whatever becomes of the packet.
Fire(r) ==
  /\ r \in Others
  /\ server[r] = "reading"
  /\ Respond(r, 202, "other")
  /\ UNCHANGED <<mwVars, timed, attempt, client, link, listening>>

\* GET /roles, /health and /metrics.
Get(r) ==
  /\ r \in Others
  /\ server[r] = "reading"
  /\ Respond(r, 200, "other")
  /\ UNCHANGED <<mwVars, timed, attempt, client, link, listening>>

\* Mutant: the answer of any attempt counts, also of one given up.
SendReturnsAny(r) ==
  /\ server[r] = "sending"
  /\ \E a \in 1..attempt[r] : step[<<r, a>>][0] = "resolved"
  /\ Respond(r, 200, "reply") \/ Respond(r, 500, "other")
  /\ UNCHANGED <<mwVars, timed, attempt, client, link, listening>>

\* send() returns a reply; one that JSON cannot express ends as a 500 ...
SendReturns(r) ==
  /\ server[r] = "sending"
  /\ Awaited(r) = "resolved"
  /\ Respond(r, 200, "reply") \/ Respond(r, 500, "other")
  /\ UNCHANGED <<mwVars, timed, attempt, client, link, listening>>

\* ... or an error.report, when the last attempt has failed.
SendFails(r) ==
  /\ AttemptFails(r)
  /\ attempt[r] = MaxAttempts
  /\ Respond(r, 200, "report")
  /\ UNCHANGED <<mwVars, timed, attempt, client, link, listening>>

\* MailmanServer.close(): no request is taken any more, and it returns when no
\* connection is left.
Close ==
  /\ listening = "open"
  /\ listening' = "closing"
  /\ UNCHANGED <<mwVars, timed, client, link, server, attempt, status, answer>>

Closed ==
  /\ listening = "closing"
  /\ \A r \in Requests : link[r] # "up"
  /\ listening' = "closed"
  /\ UNCHANGED <<mwVars, timed, client, link, server, attempt, status, answer>>

-----------------------------------------------------------------------------
Handle(r) ==
  \/ Unauthorized(r) \/ Get(r) \/ BadBody(r) \/ SendRefused(r) \/ Send(r) \/ Fire(r)
  \/ r \in Posts /\ (Retry(r) \/ SendReturns(r) \/ SendFails(r))

Wait(r) == Receive(r) \/ Timeout(r) \/ Broken(r)

Next ==
  \/ \E r \in Requests : Request(r) \/ Wait(r) \/ Break(r) \/ Handle(r)
  \/ \E d \in Dispatches : MwStep(d) /\ UNCHANGED <<timed, client, link, server, attempt, status, answer, listening>>
  \/ Close \/ Closed

Spec == Init /\ [][Next]_vars

\* The client's timer and events are served, and close() sees the last
\* connection go.  No middleware and no handler need ever answer.
FairSpec == Spec /\ WF_vars(Closed) /\ \A r \in Requests : WF_vars(Wait(r))

-----------------------------------------------------------------------------
(***************************************************************************)
(* Properties                                                              *)
(***************************************************************************)

\* A reply over HTTP is the one of the last attempt, and came up through every
\* middleware that attempt went down by, each entered once; and no earlier
\* attempt had one to give, unless a timeout had given that attempt up.
RepliedOnce ==
  \A r \in Posts :
    answer[r] = "reply" =>
      LET d == <<r, attempt[r]>>
      IN /\ \A j \in 0..source[d][0] : entered[d][j] = 1 /\ step[d][j] = "resolved"
         /\ r \in timed \/ \A a \in 1..(attempt[r] - 1) : step[<<r, a>>][0] = "rejected"

\* close() returns although handlers hang: their clients give up.
ServerCloses == listening = "closing" ~> listening = "closed"
=============================================================================
