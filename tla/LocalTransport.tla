---------------------------- MODULE LocalTransport ----------------------------
(***************************************************************************)
(* LocalTransport.ts of the test harness: one WebSocket server, and one    *)
(* client socket that is opened when an envelope needs it, closed by       *)
(* disconnect(), by a fault rule and by close(), and opened again.  Every  *)
(* await is a point where the other calls and the sockets go on.           *)
(*                                                                         *)
(* A link is one run of the function behind clientConnectPromise together  *)
(* with the socket it creates.  The network is the loopback interface: no  *)
(* open socket breaks by itself and what is sent on one arrives.           *)
(***************************************************************************)
EXTENDS Naturals, FiniteSets

CONSTANTS
  Sends,        \* calls of sendEnvelope()
  Answers,      \* calls of sendToClient(): what the agent host emits
  Disconnects,  \* calls of disconnect()
  Faulty,       \* the calls that fault rules may match
  MaxCopies,    \* bound: duplicates a rule asks for
  MaxLinks      \* bound: links

ASSUME TransportAssumption ==
  /\ Sends \cap Answers = {}
  /\ (Sends \cup Answers) \cap Disconnects = {}
  /\ (Sends \cup Answers \cup Disconnects) \cap (0..MaxLinks) = {}
  /\ Faulty \subseteq Sends \cup Answers
  /\ MaxCopies \in Nat /\ MaxLinks \in Nat

Calls == Sends \cup Answers \cup Disconnects
Links == 1..MaxLinks

\* Who may await the end of closeClientSocket(): a call, a link, or close().
TheClose == 0
Waiters == Calls \cup Links \cup {TheClose}

VARIABLES
  start,         \* startPromise: "none", "starting" or "started"
  wss,           \* the WebSocketServer: "open", "closing" or "closed"
  promise,       \* clientConnectPromise: its link, 0 for undefined
  run,           \* how far the function of each link is
  clientSocket,  \* the link of that field, 0 for undefined
  serverSocket,  \* the same
  client,        \* readyState of the client's end of each link
  served,        \* readyState of the server's end
  at,            \* the await each call is in
  joined,        \* the link whose promise a call awaits, 0 for none
  shutting,      \* the link whose "close" event a call or a link awaits
  copies,        \* deliveries a call still owes
  closer,        \* how far close() is
  \* history
  lost,          \* calls that wrote to no open socket and did not notice
  disturbed,     \* calls during which another closed the client socket
  busied         \* a call was under way while close() was

linkVars == <<promise, run, clientSocket, serverSocket, client, served>>
callVars == <<at, joined, copies>>
pastVars == <<lost, disturbed, busied>>
vars     == <<start, wss, linkVars, callVars, shutting, closer, pastVars>>

\* The awaits of ensureClientConnected(), by what follows them.
Ensuring == {"ensure", "reconnect", "deliver"}

Over == {"done", "failed"}

\* The function of a link has not returned.
Active == {"closing", "create", "opening", "waiting"}

ReadyStates == {"none", "connecting", "open", "closing", "closed"}

TypeOK ==
  /\ start \in {"none", "starting", "started"}
  /\ wss \in {"open", "closing", "closed"}
  /\ promise \in 0..MaxLinks
  /\ run \in [Links -> {"none", "closing", "create", "opening", "waiting", "ok", "failed"}]
  /\ clientSocket \in 0..MaxLinks /\ serverSocket \in 0..MaxLinks
  /\ client \in [Links -> ReadyStates]
  /\ served \in [Links -> ReadyStates \ {"connecting"}]
  /\ at \in [Calls -> {"idle", "start", "transmit", "cutting", "paced", "serving", "write", "closing"}
                      \cup Ensuring \cup Over]
  /\ joined \in [Calls -> 0..MaxLinks]
  /\ shutting \in [Waiters -> 0..MaxLinks]
  /\ copies \in [Calls -> 0..MaxCopies]
  /\ closer \in {"idle", "closing", "draining", "stopping", "done"}
  /\ lost \subseteq Calls /\ disturbed \subseteq Calls
  /\ busied \in BOOLEAN

Init ==
  /\ start = "none"
  /\ wss = "closed"
  /\ promise = 0
  /\ run = [k \in Links |-> "none"]
  /\ clientSocket = 0 /\ serverSocket = 0
  /\ client = [k \in Links |-> "none"] /\ served = [k \in Links |-> "none"]
  /\ at = [c \in Calls |-> "idle"]
  /\ joined = [c \in Calls |-> 0]
  /\ shutting = [x \in Waiters |-> 0]
  /\ copies = [c \in Calls |-> 0]
  /\ closer = "idle"
  /\ lost = {} /\ disturbed = {}
  /\ busied = FALSE

-----------------------------------------------------------------------------
UnderWay(c) == at[c] \notin {"idle"} \cup Over

Goto(c, place) == at' = [at EXCEPT ![c] = place]

ServerReady == serverSocket # 0 /\ served[serverSocket] = "open"
ClientReady == clientSocket # 0 /\ client[clientSocket] = "open"

\* No continuation is waiting to run.  Node.js runs them all before the next
\* event of a socket or timer, so only the calls themselves come between a
\* check and what follows it.
Quiet ==
  /\ \A c \in Calls :
       /\ at[c] # "write"
       /\ at[c] \in Ensuring /\ joined[c] = 0 => start = "starting"
  /\ \A k \in Links :
       /\ run[k] # "create"
       /\ run[k] = "closing" => shutting[k] # 0
       /\ run[k] = "waiting" => ~ServerReady
  /\ closer = "closing" => shutting[TheClose] # 0

\* closeClientSocket() up to its await, for a call, a link or close(), when
\* there is a socket: an open one starts to close, one that is still
\* connecting is given up.
CloseClientSocket(x) ==
  /\ clientSocket # 0
  /\ client' = [client EXCEPT ![clientSocket] = "closing"]
  /\ shutting' = [shutting EXCEPT ![x] = clientSocket]
  /\ disturbed' = disturbed \cup {c \in Calls : c # x /\ UnderWay(c)}

\* What the "close" event of a client socket does at once: its listener and
\* the rest of every closeClientSocket() that awaits it clear the field.
Forget(k) ==
  /\ clientSocket' = IF clientSocket = k \/ \E x \in Waiters : shutting[x] = k
                     THEN 0 ELSE clientSocket
  /\ shutting' = [x \in Waiters |-> IF shutting[x] = k THEN 0 ELSE shutting[x]]

-----------------------------------------------------------------------------
\* The calls of the transport.

Begin(c) ==
  /\ at[c] = "idle"
  /\ Goto(c, CASE c \in Sends -> "ensure" [] c \in Answers -> "transmit" [] OTHER -> "start")
  /\ busied' = (busied \/ closer \notin {"idle", "done"})
  /\ UNCHANGED <<start, wss, linkVars, joined, copies, shutting, closer, lost, disturbed>>

\* ensureStarted(): the first call that needs the server starts it.
EnsureStarted(c) ==
  /\ at[c] \in Ensuring \cup {"start"}
  /\ start = "none"
  /\ start' = "starting"
  /\ UNCHANGED <<wss, linkVars, callVars, shutting, closer, pastVars>>

Listening ==
  /\ Quiet
  /\ start = "starting"
  /\ start' = "started"
  /\ wss' = "open"
  /\ UNCHANGED <<linkVars, callVars, shutting, closer, pastVars>>

\* Where a call goes on after an await of ensureClientConnected().
After(c) ==
  CASE at[c] = "ensure"    -> "transmit"
    [] at[c] = "reconnect" -> "paced"
    [] OTHER               -> IF c \in Answers THEN "serving" ELSE "write"

\* Mutant: any socket will do, whatever its state.
EnsuredByField(c) ==
  /\ at[c] \in Ensuring /\ joined[c] = 0
  /\ start = "started"
  /\ clientSocket # 0
  /\ Goto(c, After(c))
  /\ UNCHANGED <<start, wss, linkVars, joined, copies, shutting, closer, pastVars>>

\* ensureClientConnected(): the socket is open ...
Ensured(c) ==
  /\ at[c] \in Ensuring /\ joined[c] = 0
  /\ start = "started"
  /\ ClientReady
  /\ Goto(c, After(c))
  /\ UNCHANGED <<start, wss, linkVars, joined, copies, shutting, closer, pastVars>>

\* ... or another call is opening one already ...
Join(c) ==
  /\ at[c] \in Ensuring /\ joined[c] = 0
  /\ start = "started"
  /\ ~ClientReady
  /\ promise # 0
  /\ joined' = [joined EXCEPT ![c] = promise]
  /\ UNCHANGED <<start, wss, linkVars, at, copies, shutting, closer, pastVars>>

\* Mutant: every call opens a socket of its own.
ConnectAnyway(c) ==
  /\ at[c] \in Ensuring /\ joined[c] = 0
  /\ start = "started"
  /\ ~ClientReady
  /\ \E k \in Links :
       /\ run[k] = "none" /\ \A j \in 1..(k - 1) : run[j] # "none"
       /\ promise' = k
       /\ joined' = [joined EXCEPT ![c] = k]
       /\ IF clientSocket = 0
          THEN run' = [run EXCEPT ![k] = "create"] /\ UNCHANGED <<client, shutting, disturbed>>
          ELSE run' = [run EXCEPT ![k] = "closing"] /\ CloseClientSocket(k)
  /\ UNCHANGED <<start, wss, clientSocket, serverSocket, served, at, copies, closer, lost, busied>>

\* ... or this call opens one, and closes the old one first.
Connect(c) ==
  /\ at[c] \in Ensuring /\ joined[c] = 0
  /\ start = "started"
  /\ ~ClientReady
  /\ promise = 0
  /\ \E k \in Links :
       /\ run[k] = "none" /\ \A j \in 1..(k - 1) : run[j] # "none"
       /\ promise' = k
       /\ joined' = [joined EXCEPT ![c] = k]
       /\ IF clientSocket = 0
          THEN run' = [run EXCEPT ![k] = "create"] /\ UNCHANGED <<client, shutting, disturbed>>
          ELSE run' = [run EXCEPT ![k] = "closing"] /\ CloseClientSocket(k)
  /\ UNCHANGED <<start, wss, clientSocket, serverSocket, served, at, copies, closer, lost, busied>>

\* transmit(): the rules that match a faulty call together ask for a cut, a
\* reconnect, a delay, a drop and copies, in this order, each or not.

\* closeClientSocket() of the rules ...
Cut(c) ==
  /\ at[c] = "transmit"
  /\ c \in Faulty
  /\ Goto(c, "cutting")
  /\ IF clientSocket = 0 THEN UNCHANGED <<client, shutting, disturbed>> ELSE CloseClientSocket(c)
  /\ UNCHANGED <<start, wss, promise, run, clientSocket, serverSocket, served, joined, copies,
                 closer, lost, busied>>

IsCut(c) == at[c] = "cutting" /\ shutting[c] = 0

\* ... ensureClientConnected() of the rules ...
Reconnect(c) ==
  /\ at[c] = "transmit" \/ IsCut(c)
  /\ c \in Faulty
  /\ Goto(c, "reconnect")
  /\ UNCHANGED <<start, wss, linkVars, joined, copies, shutting, closer, pastVars>>

Paced(c) == at[c] \in {"transmit", "paced"} \/ IsCut(c)

\* ... the envelope is dropped ...
Drop(c) ==
  /\ Paced(c)
  /\ c \in Faulty
  /\ Goto(c, "done")
  /\ UNCHANGED <<start, wss, linkVars, joined, copies, shutting, closer, pastVars>>

\* ... or delivered, and its copies after it.
Deliver(c) ==
  /\ Paced(c)
  /\ Goto(c, "deliver")
  /\ \E n \in 0..(IF c \in Faulty THEN MaxCopies ELSE 0) : copies' = [copies EXCEPT ![c] = n]
  /\ UNCHANGED <<start, wss, linkVars, joined, shutting, closer, pastVars>>

\* actualSendToClient(): waitForServerSocket().
ServerAwaited(c) ==
  /\ at[c] = "serving"
  /\ ServerReady
  /\ Goto(c, "write")
  /\ UNCHANGED <<start, wss, linkVars, joined, copies, shutting, closer, pastVars>>

ServerMissed(c) ==
  /\ Quiet
  /\ at[c] = "serving"
  /\ ~ServerReady
  /\ Goto(c, "failed")
  /\ UNCHANGED <<start, wss, linkVars, joined, copies, shutting, closer, pastVars>>

Throws(c) == c \in Sends /\ clientSocket # 0 /\ client[clientSocket] = "connecting"

\* send() on whatever socket the field holds now: it throws on a client
\* socket that is connecting, and does nothing when there is no socket or it
\* is closing.
Write(c) ==
  /\ at[c] = "write"
  /\ Goto(c, IF Throws(c) THEN "failed" ELSE IF copies[c] > 0 THEN "deliver" ELSE "done")
  /\ copies' = [copies EXCEPT ![c] = IF ~Throws(c) /\ @ > 0 THEN @ - 1 ELSE @]
  /\ lost' = IF Throws(c) \/ (IF c \in Sends THEN ClientReady ELSE ServerReady)
             THEN lost ELSE lost \cup {c}
  /\ UNCHANGED <<start, wss, linkVars, joined, shutting, closer, disturbed, busied>>

\* disconnect(): after a while the client socket is closed.
Disconnect(c) ==
  /\ at[c] = "start"
  /\ start = "started"
  /\ Goto(c, "closing")
  /\ IF clientSocket = 0 THEN UNCHANGED <<client, shutting, disturbed>> ELSE CloseClientSocket(c)
  /\ UNCHANGED <<start, wss, promise, run, clientSocket, serverSocket, served, joined, copies,
                 closer, lost, busied>>

Disconnected(c) ==
  /\ at[c] = "closing" /\ shutting[c] = 0
  /\ Goto(c, "done")
  /\ UNCHANGED <<start, wss, linkVars, joined, copies, shutting, closer, pastVars>>

-----------------------------------------------------------------------------
\* The function behind clientConnectPromise.

\* Its promise is settled, and every call that awaits it goes on or fails; the
\* first clears the field, whichever promise that holds by now.
Settle(k, result) ==
  /\ run' = [run EXCEPT ![k] = result]
  /\ promise' = 0
  /\ at' = [c \in Calls |-> IF joined[c] # k THEN at[c]
                            ELSE IF result = "ok" THEN After(c) ELSE "failed"]
  /\ joined' = [c \in Calls |-> IF joined[c] = k THEN 0 ELSE joined[c]]

OldClosed(k) ==
  /\ run[k] = "closing" /\ shutting[k] = 0
  /\ run' = [run EXCEPT ![k] = "create"]
  /\ UNCHANGED <<start, wss, promise, clientSocket, serverSocket, client, served, callVars,
                 shutting, closer, pastVars>>

\* new WebSocket(), which throws when close() has taken the port away.
NewSocket(k) ==
  /\ run[k] = "create"
  /\ IF start = "started"
     THEN /\ run' = [run EXCEPT ![k] = "opening"]
          /\ client' = [client EXCEPT ![k] = "connecting"]
          /\ clientSocket' = k
          /\ UNCHANGED <<promise, at, joined>>
     ELSE Settle(k, "failed") /\ UNCHANGED <<client, clientSocket>>
  /\ UNCHANGED <<start, wss, serverSocket, served, copies, shutting, closer, pastVars>>

\* waitForServerSocket() of the link: the server's end is open before the
\* client's is, so this never waits long enough to give up.
ServerFound(k) ==
  /\ run[k] = "waiting"
  /\ ServerReady
  /\ Settle(k, "ok")
  /\ UNCHANGED <<start, wss, clientSocket, serverSocket, client, served, copies, shutting,
                 closer, pastVars>>

-----------------------------------------------------------------------------
\* The two ends of a link.

\* The server's "connection" event.  A client that has given up is taken to be
\* refused: that the server accepts an upgrade sent before, only to see the
\* connection end, is left out.
Accept(k) ==
  /\ Quiet
  /\ client[k] = "connecting" /\ served[k] = "none"
  /\ wss = "open"
  /\ served' = [served EXCEPT ![k] = "open"]
  /\ serverSocket' = k
  /\ UNCHANGED <<start, wss, promise, run, clientSocket, client, callVars, shutting, closer, pastVars>>

\* The client's "open" event.
Opens(k) ==
  /\ Quiet
  /\ client[k] = "connecting" /\ served[k] = "open"
  /\ client' = [client EXCEPT ![k] = "open"]
  /\ run' = [run EXCEPT ![k] = "waiting"]
  /\ UNCHANGED <<start, wss, promise, clientSocket, serverSocket, served, callVars, shutting,
                 closer, pastVars>>

\* The server answers a close frame, or sees a connection given up.
ServerSees(k) ==
  /\ Quiet
  /\ served[k] = "open" /\ client[k] \in {"closing", "closed"}
  /\ served' = [served EXCEPT ![k] = "closing"]
  /\ UNCHANGED <<start, wss, promise, run, clientSocket, serverSocket, client, callVars,
                 shutting, closer, pastVars>>

\* Mutant: nobody listens to the "error" event.
ClientClosesQuietly(k) ==
  /\ Quiet
  /\ client[k] = "closing"
  /\ served[k] # "open" \/ run[k] = "opening"
  /\ client' = [client EXCEPT ![k] = "closed"]
  /\ Forget(k)
  /\ UNCHANGED <<start, wss, promise, run, at, joined, serverSocket, served, copies, closer, pastVars>>

\* The client's "close" event, after the server's answer; a socket that was
\* given up while connecting has an "error" event before it and waits for
\* nobody.
ClientCloses(k) ==
  /\ Quiet
  /\ client[k] = "closing"
  /\ served[k] # "open" \/ run[k] = "opening"
  /\ client' = [client EXCEPT ![k] = "closed"]
  /\ Forget(k)
  /\ IF run[k] = "opening" THEN Settle(k, "failed") ELSE UNCHANGED <<run, promise, at, joined>>
  /\ UNCHANGED <<start, wss, serverSocket, served, copies, closer, pastVars>>

\* Mutant: the listener does not ask which socket has closed.
ServerForgetsAny(k) ==
  /\ Quiet
  /\ served[k] = "closing"
  /\ served' = [served EXCEPT ![k] = "closed"]
  /\ serverSocket' = 0
  /\ UNCHANGED <<start, wss, promise, run, clientSocket, client, callVars, shutting, closer, pastVars>>

\* The server's "close" event.
ServerCloses(k) ==
  /\ Quiet
  /\ served[k] = "closing"
  /\ served' = [served EXCEPT ![k] = "closed"]
  /\ serverSocket' = IF serverSocket = k THEN 0 ELSE serverSocket
  /\ UNCHANGED <<start, wss, promise, run, clientSocket, client, callVars, shutting, closer, pastVars>>

-----------------------------------------------------------------------------
\* Mutant: close() leaves the client socket to the server.
CloseLeavesClient ==
  /\ closer = "idle"
  /\ start = "started"
  /\ closer' = "closing"
  /\ busied' = \E c \in Calls : UnderWay(c)
  /\ UNCHANGED <<start, wss, linkVars, callVars, shutting, lost, disturbed>>

\* close(), once; while the server is starting it is left out.
Close ==
  /\ closer = "idle"
  /\ start = "started"
  /\ closer' = "closing"
  /\ busied' = \E c \in Calls : UnderWay(c)
  /\ IF clientSocket = 0 THEN UNCHANGED <<client, shutting, disturbed>> ELSE CloseClientSocket(TheClose)
  /\ UNCHANGED <<start, wss, promise, run, clientSocket, serverSocket, served, callVars, lost>>

\* Before anything has started there is nothing to close.
CloseNothing ==
  /\ closer = "idle"
  /\ start = "none"
  /\ closer' = "done"
  /\ UNCHANGED <<start, wss, linkVars, callVars, shutting, pastVars>>

\* wss.close().
CloseWss ==
  /\ closer = "closing" /\ shutting[TheClose] = 0
  /\ closer' = "draining"
  /\ wss' = "closing"
  /\ UNCHANGED <<start, linkVars, callVars, shutting, pastVars>>

\* It waits until every server socket has closed, and closes none itself.
WssCloses ==
  /\ closer = "draining"
  /\ \A k \in Links : served[k] \in {"none", "closed"}
  /\ wss' = "closed"
  /\ closer' = "stopping"
  /\ UNCHANGED <<start, linkVars, callVars, shutting, pastVars>>

\* server.close(), and every field is cleared; links that had not got through
\* are refused.
CloseEnds ==
  /\ closer = "stopping"
  /\ closer' = "done"
  /\ start' = "none"
  /\ promise' = 0
  /\ serverSocket' = 0
  /\ client' = [k \in Links |-> IF client[k] = "connecting" THEN "closing" ELSE client[k]]
  /\ UNCHANGED <<wss, run, clientSocket, served, callVars, shutting, pastVars>>

-----------------------------------------------------------------------------
Proceed(c) ==
  \/ EnsureStarted(c) \/ Ensured(c) \/ Join(c) \/ Connect(c)
  \/ Cut(c) \/ Reconnect(c) \/ Drop(c) \/ Deliver(c)
  \/ ServerAwaited(c) \/ ServerMissed(c) \/ Write(c)
  \/ Disconnect(c) \/ Disconnected(c)

Link(k) ==
  \/ OldClosed(k) \/ NewSocket(k) \/ ServerFound(k)
  \/ Accept(k) \/ Opens(k) \/ ServerSees(k) \/ ClientCloses(k) \/ ServerCloses(k)

Closing == CloseWss \/ WssCloses \/ CloseEnds

Next ==
  \/ \E c \in Calls : Begin(c) \/ Proceed(c)
  \/ \E k \in Links : Link(k)
  \/ Listening \/ Close \/ CloseNothing \/ Closing

Spec == Init /\ [][Next]_vars

\* The event loop serves every call, socket and timer; a server that holds a
\* connection it never answers may keep server.close() waiting.
FairSpec ==
  /\ Spec
  /\ \A c \in Calls : WF_vars(Proceed(c))
  /\ \A k \in Links : WF_vars(Link(k))
  /\ WF_vars(Listening)
  /\ WF_vars(Closing /\ \A k \in Links : client[k] # "connecting")

-----------------------------------------------------------------------------
(***************************************************************************)
(* Properties                                                              *)
(***************************************************************************)

\* However calls, faults and disconnects meet, no client socket is ever open
\* that clientSocket does not hold: nothing would close it any more.  A call
\* during close() may start a server anew beside an old link.
NoneForgotten == busied \/ \A k \in Links : client[k] = "open" => clientSocket = k

\* While a link is open at both ends, answers go to that link and not to the
\* one that was closed before it.
AnswersFindTheLink ==
  \A k \in Links : client[k] = "open" /\ served[k] = "open" => serverSocket = k

\* A call that returns as if it had sent its envelope has sent it, unless
\* another call closed the client socket meanwhile.
LostOnlyWhenDisturbed == lost \subseteq disturbed

\* Every call returns or fails, unless close() was called while one was under
\* way: the calls a dying server never answers hang with it.
CallsReturn == \A c \in Calls : UnderWay(c) ~> at[c] \in Over \/ busied

\* close() returns unless another call was under way while it was.
CloseReturns == closer # "idle" ~> closer = "done" \/ busied
=============================================================================
