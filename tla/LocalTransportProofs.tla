------------------------ MODULE LocalTransportProofs ------------------------
(***************************************************************************)
(* Proofs about LocalTransport, for any number of calls and links.         *)
(***************************************************************************)
EXTENDS LocalTransport, TLAPS

Live == {"connecting", "open", "closing"}

\* One link at a time is being opened, and it has callers that await it.
OneLink ==
  /\ promise # 0 => run[promise] \in Active
  /\ \A k \in Links : run[k] \in Active => promise = k /\ \E c \in Calls : joined[c] = k
  /\ \A c \in Calls : joined[c] # 0 => run[joined[c]] \in Active /\ at[c] \in Ensuring

\* The field holds the one socket that is not closed, and a link creates its
\* socket when the old one is gone.
Sockets ==
  /\ clientSocket # 0 => client[clientSocket] \in Live
  /\ \A k \in Links :
       /\ client[k] \in Live => clientSocket = k
       /\ client[k] = "none" => served[k] = "none"
       /\ client[k] = "connecting" => run[k] = "opening"
       /\ run[k] \in {"none", "closing", "create"} => client[k] = "none"
       /\ run[k] = "create" => clientSocket = 0
       /\ run[k] = "closing" => clientSocket = 0 \/ shutting[k] = clientSocket
  /\ \A x \in Waiters : shutting[x] # 0 => client[shutting[x]] = "closing"

\* The server's field follows the client's, and close() finds no call at work.
Servers ==
  /\ \A k \in Links :
       /\ client[k] \in {"connecting", "open"} /\ served[k] = "open" => serverSocket = k
       /\ run[k] = "waiting" => ServerReady /\ client[k] \in {"open", "closing"}
  /\ closer \notin {"idle", "done"} => start = "started" /\ \A c \in Calls : ~UnderWay(c)
  /\ closer = "stopping" => wss = "closed" /\ \A k \in Links : served[k] # "open"

\* A call between its first check and its write, but for the wait in its own cut.
Sending(c) ==
  \/ at[c] \in {"transmit", "reconnect", "paced", "deliver"}
  \/ IsCut(c)

\* A call that is about to write to a socket that is not open has been disturbed.
Losses ==
  /\ lost \subseteq disturbed
  /\ \A c \in Disconnects : at[c] \in {"idle", "start", "closing", "done"}
  /\ \A c \in Sends : at[c] # "serving"
  /\ \A c \in Calls :
       at[c] = "write" => c \in disturbed \/ IF c \in Sends THEN ClientReady ELSE ServerReady
  /\ \A c \in Sends : \A k \in Links :
       Sending(c) /\ run[k] = "waiting" /\ client[k] = "closing" => c \in disturbed

LinkInv == OneLink /\ Sockets /\ Servers /\ Losses

IInv ==
  /\ TypeOK
  /\ closer = "idle" => ~busied
  /\ busied \/ LinkInv

-----------------------------------------------------------------------------
LEMMA Initially == Init => IInv
<1> SUFFICES ASSUME Init PROVE IInv  OBVIOUS
<1> USE TransportAssumption
<1>1. TypeOK
  <2>1. /\ start \in {"none", "starting", "started"} /\ wss \in {"open", "closing", "closed"}
        /\ promise \in 0..MaxLinks /\ clientSocket \in 0..MaxLinks /\ serverSocket \in 0..MaxLinks
        /\ closer \in {"idle", "closing", "draining", "stopping", "done"}
        /\ lost \subseteq Calls /\ disturbed \subseteq Calls
    BY DEF Init
  <2>5. busied \in BOOLEAN  BY Zenon DEF Init
  <2>2. /\ run \in [Links -> {"none", "closing", "create", "opening", "waiting", "ok", "failed"}]
        /\ client \in [Links -> ReadyStates]
        /\ served \in [Links -> ReadyStates \ {"connecting"}]
    BY DEF Init, ReadyStates
  <2>3. /\ joined \in [Calls -> 0..MaxLinks] /\ copies \in [Calls -> 0..MaxCopies]
        /\ shutting \in [Waiters -> 0..MaxLinks]
    BY DEF Init
  <2>4. at \in [Calls -> {"idle", "start", "transmit", "cutting", "paced", "serving", "write",
                          "closing"} \cup Ensuring \cup Over]
    BY DEF Init
  <2> QED  BY <2>1, <2>2, <2>3, <2>4, <2>5 DEF TypeOK
<1>2. OneLink  BY DEF Init, OneLink, Active
<1>3. Sockets  BY DEF Init, Sockets, Live
<1>4. Servers  BY DEF Init, Servers
<1>5. Losses  BY DEF Init, Losses, Calls
<1> QED  BY <1>1, <1>2, <1>3, <1>4, <1>5 DEF Init, IInv, LinkInv

\* A step of a call that awaits no link and leaves links and sockets alone.
LEMMA CallStep ==
  ASSUME TypeOK, LinkInv, NEW c \in Calls, NEW place,
         at' = [at EXCEPT ![c] = place],
         UNCHANGED <<start, wss, linkVars, joined, shutting, closer, disturbed>>,
         joined[c] = 0,
         closer \in {"idle", "done"},
         c \in Disconnects => place \in {"idle", "start", "closing", "done"},
         place = "serving" => c \notin Sends,
         lost' \subseteq disturbed,
         place = "write" => c \in disturbed \/ IF c \in Sends THEN ClientReady ELSE ServerReady,
         c \in Sends /\ place \in {"transmit", "cutting", "reconnect", "paced", "deliver"} =>
           \/ Sending(c) \/ c \in disturbed
           \/ \A k \in Links : ~(run[k] = "waiting" /\ client[k] = "closing")
  PROVE  LinkInv'
<1>1. /\ UNCHANGED <<promise, run, clientSocket, serverSocket, client, served>>
      /\ at'[c] = place
      /\ \A b \in Calls \ {c} : at'[b] = at[b]
  BY DEF linkVars, TypeOK
<1>2. OneLink'
  BY <1>1 DEF LinkInv, OneLink
<1>3. Sockets'
  BY <1>1 DEF LinkInv, Sockets
<1>4. Servers'
  BY <1>1 DEF LinkInv, Servers, ServerReady
<1>5. Losses'
  <2>1. \A b \in Disconnects : at'[b] \in {"idle", "start", "closing", "done"}
    BY <1>1 DEF LinkInv, Losses, Calls
  <2>4. \A b \in Sends : at'[b] # "serving"
    BY <1>1 DEF LinkInv, Losses, Calls
  <2>2. ASSUME NEW b \in Calls, at'[b] = "write"
        PROVE  b \in disturbed' \/ IF b \in Sends THEN ClientReady' ELSE ServerReady'
    BY <1>1, <2>2 DEF LinkInv, Losses, ClientReady, ServerReady
  <2>3. ASSUME NEW b \in Sends, NEW k \in Links, Sending(b)', run'[k] = "waiting", client'[k] = "closing"
        PROVE  b \in disturbed'
    <3>1. CASE b = c  BY <1>1, <2>3, <3>1 DEF LinkInv, Losses, Sending, IsCut
    <3>2. CASE b # c  BY <1>1, <2>3, <3>2 DEF LinkInv, Losses, Sending, IsCut, Calls
    <3> QED  BY <3>1, <3>2
  <2> QED  BY <2>1, <2>2, <2>3, <2>4 DEF Losses
<1> QED  BY <1>2, <1>3, <1>4, <1>5 DEF LinkInv

\* The calls between their awaits.
LEMMA CallSteps ==
  ASSUME IInv, NEW c \in Calls,
         \/ Begin(c) \/ Ensured(c) \/ Reconnect(c) \/ Drop(c) \/ Deliver(c)
         \/ ServerAwaited(c) \/ ServerMissed(c) \/ Write(c) \/ Disconnected(c)
  PROVE  IInv'
<1> USE TransportAssumption
<1>1. TypeOK'
  <2>1. CASE Begin(c)  BY <2>1 DEF IInv, TypeOK, Begin, Goto, linkVars, Ensuring, Over
  <2>2. CASE Ensured(c)  BY <2>2 DEF IInv, TypeOK, Ensured, Goto, After, linkVars, pastVars, Ensuring, Over
  <2>3. CASE Reconnect(c)  BY <2>3 DEF IInv, TypeOK, Reconnect, Goto, linkVars, pastVars, Ensuring, Over
  <2>4. CASE Drop(c)  BY <2>4 DEF IInv, TypeOK, Drop, Goto, linkVars, pastVars, Ensuring, Over
  <2>5. CASE Deliver(c)
    <3>1. PICK n \in 0..(IF c \in Faulty THEN MaxCopies ELSE 0) : copies' = [copies EXCEPT ![c] = n]
      BY <2>5 DEF Deliver
    <3>2. n \in 0..MaxCopies  OBVIOUS
    <3> QED  BY <2>5, <3>1, <3>2 DEF IInv, TypeOK, Deliver, Goto, linkVars, pastVars, Ensuring, Over
  <2>6. CASE ServerAwaited(c)  BY <2>6 DEF IInv, TypeOK, ServerAwaited, Goto, linkVars, pastVars, Ensuring, Over
  <2>7. CASE ServerMissed(c)  BY <2>7 DEF IInv, TypeOK, ServerMissed, Goto, linkVars, pastVars, Ensuring, Over
  <2>8. CASE Write(c)  BY <2>8 DEF IInv, TypeOK, Write, Goto, linkVars, Ensuring, Over
  <2>9. CASE Disconnected(c)  BY <2>9 DEF IInv, TypeOK, Disconnected, Goto, linkVars, pastVars, Ensuring, Over
  <2> QED  BY <2>1, <2>2, <2>3, <2>4, <2>5, <2>6, <2>7, <2>8, <2>9
<1>2. closer' = "idle" => ~busied'
  BY DEF IInv, Begin, Ensured, Reconnect, Drop, Deliver, ServerAwaited, ServerMissed, Write,
         Disconnected, pastVars
<1>3. ASSUME ~busied' PROVE LinkInv'
  <2>a. ASSUME Begin(c) PROVE ~busied
    <3>1. busied' = (busied \/ closer \notin {"idle", "done"})  BY <2>a DEF Begin
    <3> QED  BY <1>3, <3>1
  <2>b. ASSUME ~Begin(c) PROVE ~busied
    <3>1. busied' = busied
      BY <2>b DEF Ensured, Reconnect, Drop, Deliver, ServerAwaited, ServerMissed, Write,
                  Disconnected, pastVars
    <3> QED  BY <1>3, <3>1
  <2>c. ~busied  BY <2>a, <2>b
  <2>0. ~busied /\ LinkInv /\ TypeOK  BY <2>c DEF IInv
  <2>1. UnderWay(c) => closer \in {"idle", "done"}
    BY <2>0 DEF LinkInv, Servers
  <2>2. at[c] \notin Ensuring => joined[c] = 0
    BY <2>0 DEF LinkInv, OneLink
  <2>3. lost \subseteq disturbed
    BY <2>0 DEF LinkInv, Losses
  <2>4. c \in Disconnects => at[c] \in {"idle", "start", "closing", "done"}
    BY <2>0 DEF LinkInv, Losses
  <2>5. CASE Begin(c)
    <3>1. /\ at' = [at EXCEPT ![c] = CASE c \in Sends -> "ensure" [] c \in Answers -> "transmit" [] OTHER -> "start"]
          /\ closer \in {"idle", "done"} /\ at[c] = "idle"
          /\ UNCHANGED <<start, wss, linkVars, joined, shutting, closer, lost, disturbed>>
      BY <1>3, <2>5 DEF Begin, Goto, IInv, TypeOK
    <3> DEFINE place == CASE c \in Sends -> "ensure" [] c \in Answers -> "transmit" [] OTHER -> "start"
    <3>2. /\ c \in Sends => place = "ensure"
          /\ c \in Disconnects => place = "start"
          /\ place \in {"ensure", "transmit", "start"}
      BY DEF Calls
    <3> HIDE DEF place
    <3> QED  BY <2>0, <2>2, <2>3, <3>1, <3>2, CallStep DEF Ensuring, place
  <2>6. CASE Ensured(c)
    <3>1. /\ at' = [at EXCEPT ![c] = After(c)] /\ at[c] \in Ensuring /\ joined[c] = 0
          /\ UNCHANGED <<start, wss, linkVars, joined, shutting, closer, lost, disturbed>>
          /\ ClientReady
      BY <2>6 DEF Ensured, Goto, pastVars
    <3>2. \A k \in Links : client[k] # "closing"
      BY <2>0, <3>1 DEF ClientReady, LinkInv, Sockets, Live
    <3>3. /\ c \notin Disconnects
          /\ After(c) \in {"transmit", "paced", "serving", "write"}
          /\ After(c) = "write" => c \in Sends
          /\ After(c) = "serving" => c \notin Sends
      BY <2>4, <3>1 DEF Ensuring, After, Calls
    <3>4. UnderWay(c)  BY <3>1 DEF UnderWay, Ensuring, Over
    <3> QED  BY <2>0, <2>1, <2>3, <3>1, <3>2, <3>3, <3>4, CallStep
  <2>7. CASE Reconnect(c) \/ Drop(c) \/ Deliver(c)
    <3>1. /\ Reconnect(c) => at' = [at EXCEPT ![c] = "reconnect"]
          /\ Drop(c) => at' = [at EXCEPT ![c] = "done"]
          /\ Deliver(c) => at' = [at EXCEPT ![c] = "deliver"]
          /\ UNCHANGED <<start, wss, linkVars, joined, shutting, closer, lost, disturbed>>
          /\ Sending(c) /\ at[c] \in {"transmit", "paced", "cutting"}
      BY <2>7 DEF Reconnect, Drop, Deliver, Goto, Paced, IsCut, Sending, pastVars
    <3>2. UnderWay(c) /\ c \notin Disconnects /\ joined[c] = 0
      BY <2>2, <2>4, <3>1 DEF UnderWay, Over, Ensuring
    <3> QED  BY <2>0, <2>1, <2>3, <2>7, <3>1, <3>2, CallStep
  <2>8. CASE ServerAwaited(c) \/ ServerMissed(c)
    <3>1. /\ ServerAwaited(c) => at' = [at EXCEPT ![c] = "write"] /\ ServerReady
          /\ ServerMissed(c) => at' = [at EXCEPT ![c] = "failed"]
          /\ UNCHANGED <<start, wss, linkVars, joined, shutting, closer, lost, disturbed>>
          /\ at[c] = "serving"
      BY <2>8 DEF ServerAwaited, ServerMissed, Goto, pastVars
    <3>2. UnderWay(c) /\ c \notin Disconnects /\ joined[c] = 0 /\ c \notin Sends
      BY <2>0, <2>2, <2>4, <3>1 DEF UnderWay, Over, Ensuring, LinkInv, Losses
    <3> QED  BY <2>0, <2>1, <2>3, <2>8, <3>1, <3>2, CallStep
  <2>9. CASE Write(c)
    <3> DEFINE place == IF Throws(c) THEN "failed" ELSE IF copies[c] > 0 THEN "deliver" ELSE "done"
    <3>1. /\ at' = [at EXCEPT ![c] = place] /\ at[c] = "write"
          /\ UNCHANGED <<start, wss, linkVars, joined, shutting, closer, disturbed>>
          /\ lost' = IF Throws(c) \/ (IF c \in Sends THEN ClientReady ELSE ServerReady)
                     THEN lost ELSE lost \cup {c}
      BY <2>9 DEF Write, Goto
    <3>2. UnderWay(c) /\ c \notin Disconnects /\ joined[c] = 0
      BY <2>2, <2>4, <3>1 DEF UnderWay, Over, Ensuring
    <3>3. lost' \subseteq disturbed
      BY <2>0, <2>3, <3>1 DEF LinkInv, Losses
    <3>4. c \in Sends => c \in disturbed \/ ClientReady
      BY <2>0, <3>1 DEF LinkInv, Losses
    <3>5. ClientReady => \A k \in Links : client[k] # "closing"
      BY <2>0 DEF ClientReady, LinkInv, Sockets, Live
    <3>6. place \in {"failed", "deliver", "done"}  OBVIOUS
    <3>7. c \in Sends => c \in disturbed \/ \A k \in Links : ~(run[k] = "waiting" /\ client[k] = "closing")
      BY <3>4, <3>5
    <3>8. closer \in {"idle", "done"}  BY <2>1, <3>2
    <3> HIDE DEF place
    <3> QED  BY <2>0, <3>1, <3>2, <3>3, <3>6, <3>7, <3>8, CallStep
  <2>10. CASE Disconnected(c)
    <3>1. /\ at' = [at EXCEPT ![c] = "done"] /\ at[c] = "closing"
          /\ UNCHANGED <<start, wss, linkVars, joined, shutting, closer, lost, disturbed>>
      BY <2>10 DEF Disconnected, Goto, pastVars
    <3>2. UnderWay(c) /\ joined[c] = 0
      BY <2>2, <3>1 DEF UnderWay, Over, Ensuring
    <3> QED  BY <2>0, <2>1, <2>3, <3>1, <3>2, CallStep
  <2> QED  BY <2>5, <2>6, <2>7, <2>8, <2>9, <2>10
<1> QED  BY <1>1, <1>2, <1>3 DEF IInv

\* A step that leaves the calls, the links and their sockets alone.
LEMMA ServerStep ==
  ASSUME IInv, UNCHANGED <<linkVars, callVars, shutting, pastVars>>,
         start' \in {"none", "starting", "started"}, wss' \in {"open", "closing", "closed"},
         closer' \in {"idle", "closing", "draining", "stopping", "done"},
         closer' = "idle" => closer = "idle",
         LinkInv =>
           /\ closer' \notin {"idle", "done"} => start' = "started" /\ \A c \in Calls : ~UnderWay(c)
           /\ closer' = "stopping" => wss' = "closed" /\ \A k \in Links : served[k] # "open"
  PROVE  IInv'
<1>1. UNCHANGED <<promise, run, clientSocket, serverSocket, client, served, at, joined, copies,
                  shutting, lost, disturbed, busied>>
  BY DEF linkVars, callVars, pastVars
<1>2. TypeOK'  BY <1>1 DEF IInv, TypeOK
<1>3. LinkInv => LinkInv'
  <2>1. OneLink => OneLink'  BY <1>1 DEF OneLink
  <2>2. Sockets => Sockets'  BY <1>1 DEF Sockets
  <2>3. LinkInv => Servers'  BY <1>1 DEF LinkInv, Servers, ServerReady, UnderWay
  <2>4. Losses => Losses'
    BY <1>1 DEF Losses, Sending, IsCut, ClientReady, ServerReady
  <2> QED  BY <2>1, <2>2, <2>3, <2>4 DEF LinkInv
<1> QED  BY <1>1, <1>2, <1>3 DEF IInv

LEMMA ServerSteps ==
  ASSUME IInv,
         (\E c \in Calls : EnsureStarted(c)) \/ Listening \/ CloseNothing \/ CloseWss \/ WssCloses
  PROVE  IInv'
<1> USE DEF LinkInv, Servers
<1>1. ASSUME NEW c \in Calls, EnsureStarted(c) PROVE IInv'
  <2>1. UnderWay(c)  BY <1>1 DEF EnsureStarted, UnderWay, Ensuring, Over
  <2> QED  BY <1>1, <2>1, ServerStep DEF EnsureStarted, IInv, TypeOK
<1>2. CASE Listening
  BY <1>2, ServerStep DEF Listening, IInv, TypeOK
<1>3. CASE CloseNothing
  BY <1>3, ServerStep DEF CloseNothing, IInv, TypeOK
<1>4. CASE CloseWss
  BY <1>4, ServerStep DEF CloseWss, IInv, TypeOK
<1>5. CASE WssCloses
  BY <1>5, ServerStep DEF WssCloses, IInv, TypeOK
<1> QED  BY <1>1, <1>2, <1>3, <1>4, <1>5

-----------------------------------------------------------------------------
\* While a call was under way during close(), nothing is promised.
LEMMA IfNotBusied ==
  ASSUME IInv, TypeOK', UNCHANGED <<busied, closer>>, LinkInv => LinkInv'
  PROVE  IInv'
BY DEF IInv

\* The client socket starts to close for a call, a link or close().
LEMMA SocketCloses ==
  ASSUME TypeOK, LinkInv, NEW x \in Waiters, CloseClientSocket(x),
         UNCHANGED <<clientSocket, serverSocket, served, lost>>,
         \A k \in Links : run'[k] = run[k] \/ (k = x /\ run[k] = "none" /\ run'[k] = "closing"),
         \A c \in Calls : IF c = x THEN at'[c] \in {"cutting", "closing"} ELSE at'[c] = at[c],
         \A c \in Disconnects : at'[c] # "cutting",
         closer' # "stopping",
         closer' \notin {"idle", "done"} => start' = "started" /\ \A c \in Calls : ~UnderWay(c)'
  PROVE  Sockets' /\ Servers' /\ Losses'
<1> USE TransportAssumption
<1> DEFINE s == clientSocket
<1>1. /\ s \in Links /\ s # 0
      /\ client'[s] = "closing"
      /\ \A k \in Links : k # s => client'[k] = client[k]
      /\ shutting'[x] = s
      /\ \A y \in Waiters : y # x => shutting'[y] = shutting[y]
      /\ disturbed' = disturbed \cup {c \in Calls : c # x /\ UnderWay(c)}
  BY DEF CloseClientSocket, TypeOK, Links
<1>2. client[s] \in Live /\ run[s] \notin {"none", "closing", "create"}
  BY <1>1 DEF LinkInv, Sockets, Live
<1>3. Sockets'
  <2>1. \A k \in Links : client'[k] \in Live => s = k
    BY <1>1 DEF LinkInv, Sockets
  <2>2. ASSUME NEW k \in Links
        PROVE  /\ client'[k] = "none" => served[k] = "none"
               /\ client'[k] = "connecting" => run'[k] = "opening"
               /\ run'[k] \in {"none", "closing", "create"} => client'[k] = "none"
               /\ run'[k] = "create" => s = 0
               /\ run'[k] = "closing" => s = 0 \/ shutting'[k] = s
    <3>1. k \in Waiters  BY DEF Waiters
    <3> QED  BY <1>1, <1>2, <3>1 DEF LinkInv, Sockets
  <2>3. ASSUME NEW y \in Waiters, shutting'[y] # 0 PROVE client'[shutting'[y]] = "closing"
    <3>1. CASE y = x  BY <1>1, <3>1
    <3>2. CASE y # x
      <4>1. shutting[y] # 0 /\ shutting[y] \in Links  BY <1>1, <2>3, <3>2 DEF TypeOK, Links
      <4> QED  BY <1>1, <3>2, <4>1 DEF LinkInv, Sockets
    <3> QED  BY <3>1, <3>2
  <2>4. client'[s] \in Live  BY <1>1 DEF Live
  <2> QED  BY <2>1, <2>2, <2>3, <2>4 DEF Sockets
<1>4. Servers'
  <2>1. \A k \in Links :
          /\ client'[k] \in {"connecting", "open"} => client'[k] = client[k]
          /\ client[k] \in {"open", "closing"} => client'[k] \in {"open", "closing"}
          /\ run'[k] = "waiting" => run[k] = "waiting"
    BY <1>1
  <2> QED  BY <2>1 DEF LinkInv, Servers, ServerReady
<1>5. Losses'
  <2>1. \A c \in Disconnects : at'[c] \in {"idle", "start", "closing", "done"}
    BY DEF LinkInv, Losses, Calls
  <2>2. \A c \in Sends : at'[c] # "serving"
    BY DEF LinkInv, Losses, Calls
  <2>3. ASSUME NEW c \in Calls, at'[c] = "write" PROVE c \in disturbed'
    <3>1. at[c] = "write" /\ c # x  BY <2>3
    <3> QED  BY <1>1, <3>1 DEF UnderWay, Over
  <2>4. ASSUME NEW c \in Sends, Sending(c)' PROVE c \in disturbed'
    <3>0. c \in Calls /\ c \in Waiters  BY DEF Calls, Waiters
    <3>1. CASE c # x
      <4>1. at'[c] = at[c]  BY <3>0, <3>1
      <4> QED  BY <1>1, <2>4, <3>0, <3>1, <4>1 DEF Sending, IsCut, UnderWay, Over
    <3>2. CASE c = x
      <4>1. at'[c] # "cutting"  BY <1>1, <2>4, <3>2 DEF Sending, IsCut
      <4> QED  BY <1>1, <2>4, <3>0, <3>2, <4>1 DEF Sending, IsCut
    <3> QED  BY <3>1, <3>2
  <2>5. lost' \subseteq disturbed'  BY <1>1 DEF LinkInv, Losses
  <2> QED  BY <2>1, <2>2, <2>3, <2>4, <2>5 DEF Losses
<1> QED  BY <1>3, <1>4, <1>5
\* The function of a link returns ...
LEMMA SettleTyped ==
  ASSUME TypeOK, NEW k \in Links, NEW result \in {"ok", "failed"}, Settle(k, result)
  PROVE  /\ promise' \in 0..MaxLinks
         /\ run' \in [Links -> {"none", "closing", "create", "opening", "waiting", "ok", "failed"}]
         /\ at' \in [Calls -> {"idle", "start", "transmit", "cutting", "paced", "serving", "write",
                               "closing"} \cup Ensuring \cup Over]
         /\ joined' \in [Calls -> 0..MaxLinks]
<1>1. promise' \in 0..MaxLinks
  BY TransportAssumption DEF Settle
<1>2. run' \in [Links -> {"none", "closing", "create", "opening", "waiting", "ok", "failed"}]
  BY DEF Settle, TypeOK
<1>3. joined' \in [Calls -> 0..MaxLinks]
  BY TransportAssumption DEF Settle, TypeOK
<1>4. \A c \in Calls : After(c) \in {"transmit", "paced", "serving", "write"}
  BY DEF After
<1>5. at' \in [Calls -> {"idle", "start", "transmit", "cutting", "paced", "serving", "write",
                         "closing"} \cup Ensuring \cup Over]
  BY <1>4 DEF Settle, TypeOK, Over
<1> QED  BY <1>1, <1>2, <1>3, <1>5

\* ... no other link was being opened, and every call that waited for one
\* waited for this.
LEMMA Settles ==
  ASSUME TypeOK, OneLink, NEW k \in Links, run[k] \in Active,
         NEW result \in {"ok", "failed"}, Settle(k, result)
  PROVE  /\ OneLink'
         /\ run'[k] = result
         /\ \A j \in Links : j # k => run'[j] = run[j] /\ run[j] \notin Active
         /\ \A c \in Calls :
              \/ at'[c] = at[c]
              \/ joined[c] = k /\ at[c] \in Ensuring
                   /\ at'[c] = IF result = "ok" THEN After(c) ELSE "failed"
<1>1. \A j \in Links : j # k => run'[j] = run[j] /\ run[j] \notin Active
  BY DEF Settle, TypeOK, OneLink
<1>2. run'[k] = result /\ promise' = 0
  BY DEF Settle, TypeOK
<1>3. \A c \in Calls : joined'[c] = 0
  BY <1>1 DEF Settle, OneLink, TypeOK, Links
<1>4. \A c \in Calls :
        \/ at'[c] = at[c]
        \/ joined[c] = k /\ at[c] \in Ensuring
             /\ at'[c] = IF result = "ok" THEN After(c) ELSE "failed"
  BY DEF Settle, OneLink, Links
<1>5. OneLink'
  BY <1>1, <1>2, <1>3 DEF OneLink, Active
<1> QED  BY <1>1, <1>2, <1>4, <1>5

-----------------------------------------------------------------------------
\* The steps that close the client socket.
LEMMA CutSteps ==
  ASSUME IInv, NEW c \in Calls, Cut(c) \/ Disconnect(c)
  PROVE  IInv'
<1> USE TransportAssumption
<1> DEFINE place == IF Cut(c) THEN "cutting" ELSE "closing"
<1>1. /\ at' = [at EXCEPT ![c] = place] /\ at[c] \in {"transmit", "start"}
      /\ UNCHANGED <<start, wss, promise, run, clientSocket, serverSocket, served, joined, copies,
                     closer, lost, busied>>
      /\ IF clientSocket = 0 THEN UNCHANGED <<client, shutting, disturbed>> ELSE CloseClientSocket(c)
      /\ at[c] = "start" => place = "closing"
  BY DEF Cut, Disconnect, Goto
<1>2. place \in {"cutting", "closing"}  OBVIOUS
<1> HIDE DEF place
<1>3. c \in Waiters /\ TypeOK  BY DEF Waiters, IInv
<1>4. TypeOK'
  <2>1. at' \in [Calls -> {"idle", "start", "transmit", "cutting", "paced", "serving", "write",
                           "closing"} \cup Ensuring \cup Over]
    BY <1>1, <1>2, <1>3 DEF TypeOK
  <2>2. /\ client' \in [Links -> ReadyStates] /\ shutting' \in [Waiters -> 0..MaxLinks]
        /\ disturbed' \subseteq Calls
    BY <1>1, <1>3 DEF TypeOK, CloseClientSocket, ReadyStates
  <2> QED  BY <1>1, <1>3, <2>1, <2>2 DEF TypeOK
<1>5. ASSUME LinkInv PROVE LinkInv'
  <2>1. joined[c] = 0  BY <1>1, <1>5 DEF LinkInv, OneLink, Ensuring
  <2>2. UnderWay(c)  BY <1>1 DEF UnderWay, Over
  <2>3. closer \in {"idle", "done"}  BY <1>5, <2>2 DEF LinkInv, Servers
  <2>4. c \in Disconnects => place = "closing"
    BY <1>1, <1>2, <1>5 DEF LinkInv, Losses
  <2>5. CASE clientSocket = 0
    <3>1. \A k \in Links : client[k] # "closing"
      BY <1>5, <2>5 DEF LinkInv, Sockets, Live, Links
    <3>2. UNCHANGED <<linkVars, start, wss, joined, shutting, closer, disturbed, lost>>
      BY <1>1, <2>5 DEF linkVars
    <3>3. lost \subseteq disturbed  BY <1>5 DEF LinkInv, Losses
    <3> QED  BY <1>1, <1>2, <1>3, <1>5, <2>1, <2>3, <2>4, <3>1, <3>2, <3>3, CallStep
  <2>6. CASE clientSocket # 0
    <3>1. OneLink'
      BY <1>1, <1>3, <1>5, <2>1 DEF LinkInv, OneLink, TypeOK
    <3>2. \A b \in Calls : IF b = c THEN at'[b] \in {"cutting", "closing"} ELSE at'[b] = at[b]
      BY <1>1, <1>2, <1>3 DEF TypeOK
    <3>3. \A b \in Disconnects : at'[b] # "cutting"
      <4>1. ASSUME NEW b \in Disconnects PROVE at'[b] # "cutting"
        <5>1. at[b] # "cutting" /\ b \in Calls  BY <1>5 DEF LinkInv, Losses, Calls
        <5> QED  BY <1>1, <1>3, <2>4, <5>1 DEF TypeOK
      <4> QED  BY <4>1
    <3>4. closer' \in {"idle", "done"} /\ CloseClientSocket(c)  BY <1>1, <2>3, <2>6
    <3> QED  BY <1>1, <1>3, <1>5, <3>1, <3>2, <3>3, <3>4, SocketCloses DEF LinkInv
  <2> QED  BY <2>5, <2>6
<1> QED  BY <1>1, <1>4, <1>5, IfNotBusied

LEMMA ConnectStep ==
  ASSUME IInv, NEW c \in Calls, Connect(c)
  PROVE  IInv'
<1> USE TransportAssumption
<1>1. PICK k \in Links :
        /\ run[k] = "none"
        /\ promise' = k
        /\ joined' = [joined EXCEPT ![c] = k]
        /\ IF clientSocket = 0
           THEN run' = [run EXCEPT ![k] = "create"] /\ UNCHANGED <<client, shutting, disturbed>>
           ELSE run' = [run EXCEPT ![k] = "closing"] /\ CloseClientSocket(k)
  BY DEF Connect
<1>2. /\ at[c] \in Ensuring /\ joined[c] = 0 /\ promise = 0
      /\ UNCHANGED <<start, wss, clientSocket, serverSocket, served, at, copies, closer, lost, busied>>
  BY DEF Connect
<1>3. k \in Waiters /\ TypeOK  BY DEF Waiters, IInv
<1>4. TypeOK'
  <2>1. run' \in [Links -> {"none", "closing", "create", "opening", "waiting", "ok", "failed"}]
    BY <1>1, <1>3 DEF TypeOK
  <2>2. /\ client' \in [Links -> ReadyStates] /\ shutting' \in [Waiters -> 0..MaxLinks]
        /\ disturbed' \subseteq Calls
    BY <1>1, <1>3 DEF TypeOK, CloseClientSocket, ReadyStates
  <2>3. promise' \in 0..MaxLinks /\ joined' \in [Calls -> 0..MaxLinks]
    BY <1>1, <1>3 DEF TypeOK, Links
  <2> QED  BY <1>2, <1>3, <2>1, <2>2, <2>3 DEF TypeOK
<1>5. ASSUME LinkInv PROVE LinkInv'
  <2>1. /\ run'[k] \in {"create", "closing"}
        /\ \A j \in Links : j # k => run'[j] = run[j]
    BY <1>1, <1>3 DEF TypeOK
  <2>2. \A j \in Links : run[j] \notin Active
    BY <1>2, <1>5 DEF LinkInv, OneLink, Links
  <2>3. OneLink'
    <3>1. joined'[c] = k /\ \A b \in Calls : b # c => joined'[b] = joined[b]
      BY <1>1, <1>3 DEF TypeOK
    <3>2. \A b \in Calls : joined[b] = 0
      BY <1>3, <1>5, <2>2 DEF LinkInv, OneLink, TypeOK, Links
    <3>3. \A j \in Links : run'[j] \in Active => j = k
      BY <2>1, <2>2
    <3>4. run'[k] \in Active  BY <2>1 DEF Active
    <3>5. \A b \in Calls : joined'[b] # 0 => b = c  BY <3>1, <3>2
    <3> QED  BY <1>1, <1>2, <3>1, <3>3, <3>4, <3>5 DEF OneLink
  <2>4. CASE clientSocket = 0
    <3>1. /\ run' = [run EXCEPT ![k] = "create"]
          /\ UNCHANGED <<client, shutting, disturbed>>
      BY <1>1, <2>4
    <3>2. run'[k] = "create"  BY <1>3, <3>1 DEF TypeOK
    <3>3. Sockets'
      BY <1>1, <1>2, <1>5, <2>1, <2>4, <3>1, <3>2 DEF LinkInv, Sockets
    <3>4. Servers'
      BY <1>2, <1>5, <2>1, <3>1, <3>2 DEF LinkInv, Servers, ServerReady, UnderWay
    <3>5. Losses'
      <4>1. \A j \in Links : run'[j] # "waiting"  BY <2>1, <2>2 DEF Active
      <4>2. \A b \in Calls :
              at'[b] = "write" => b \in disturbed' \/ IF b \in Sends THEN ClientReady' ELSE ServerReady'
        BY <1>2, <1>5, <3>1 DEF LinkInv, Losses, ClientReady, ServerReady
      <4> QED  BY <1>2, <1>5, <3>1, <4>1, <4>2 DEF LinkInv, Losses
    <3> QED  BY <2>3, <3>3, <3>4, <3>5 DEF LinkInv
  <2>5. CASE clientSocket # 0
    <3>1. run' = [run EXCEPT ![k] = "closing"] /\ CloseClientSocket(k)  BY <1>1, <2>5
    <3>2. \A j \in Links : run'[j] = run[j] \/ (j = k /\ run[j] = "none" /\ run'[j] = "closing")
      BY <1>1, <1>3, <3>1 DEF TypeOK
    <3>3. k \notin Calls  BY DEF Calls, Links
    <3>4. \A b \in Calls : IF b = k THEN at'[b] \in {"cutting", "closing"} ELSE at'[b] = at[b]
      BY <1>2, <3>3
    <3>5. \A b \in Disconnects : at'[b] # "cutting"
      BY <1>2, <1>5 DEF LinkInv, Losses
    <3>6. UnderWay(c)  BY <1>2 DEF UnderWay, Ensuring, Over
    <3>7. closer' \in {"idle", "done"}  BY <1>2, <1>5, <3>6 DEF LinkInv, Servers
    <3> QED  BY <1>2, <1>3, <1>5, <2>3, <3>1, <3>2, <3>4, <3>5, <3>7, SocketCloses DEF LinkInv
  <2> QED  BY <2>4, <2>5
<1> QED  BY <1>2, <1>4, <1>5, IfNotBusied
-----------------------------------------------------------------------------
\* The function of a link, and a call that joins it.
LEMMA JoinStep ==
  ASSUME IInv, NEW c \in Calls, Join(c)
  PROVE  IInv'
<1>1. /\ at[c] \in Ensuring /\ promise # 0
      /\ joined' = [joined EXCEPT ![c] = promise]
      /\ UNCHANGED <<start, wss, promise, run, clientSocket, serverSocket, client, served, at,
                     copies, shutting, closer, lost, disturbed, busied>>
  BY DEF Join, linkVars, pastVars
<1>2. TypeOK'  BY <1>1 DEF IInv, TypeOK
<1>3. ASSUME LinkInv PROVE LinkInv'
  <2>1. OneLink'
    <3>1. joined'[c] = promise /\ \A b \in Calls : b # c => joined'[b] = joined[b]
      BY <1>1 DEF IInv, TypeOK
    <3>2. \A k \in Links : run[k] \in Active => \E b \in Calls : joined'[b] = k
      <4>1. ASSUME NEW k \in Links, run[k] \in Active PROVE joined'[c] = k
        BY <1>3, <3>1, <4>1 DEF LinkInv, OneLink
      <4> QED  BY <4>1
    <3> QED  BY <1>1, <1>3, <3>1, <3>2 DEF LinkInv, OneLink
  <2>2. Sockets'  BY <1>1, <1>3 DEF LinkInv, Sockets
  <2>3. Servers'  BY <1>1, <1>3 DEF LinkInv, Servers, ServerReady, UnderWay
  <2>4. Losses'  BY <1>1, <1>3 DEF LinkInv, Losses, ClientReady, ServerReady, Sending, IsCut
  <2> QED  BY <2>1, <2>2, <2>3, <2>4 DEF LinkInv
<1> QED  BY <1>1, <1>2, <1>3, IfNotBusied

LEMMA OldClosedStep ==
  ASSUME IInv, NEW k \in Links, OldClosed(k)
  PROVE  IInv'
<1>1. /\ run[k] = "closing" /\ shutting[k] = 0
      /\ run' = [run EXCEPT ![k] = "create"]
      /\ UNCHANGED <<start, wss, promise, clientSocket, serverSocket, client, served, at, joined,
                     copies, shutting, closer, lost, disturbed, busied>>
  BY DEF OldClosed, callVars, pastVars
<1>2. /\ run'[k] = "create"
      /\ \A j \in Links : j # k => run'[j] = run[j]
  BY <1>1 DEF IInv, TypeOK
<1>3. TypeOK'  BY <1>1 DEF IInv, TypeOK
<1>4. ASSUME LinkInv PROVE LinkInv'
  <2>1. OneLink'
    <3>1. \A j \in Links : run'[j] \in Active <=> run[j] \in Active  BY <1>1, <1>2 DEF Active
    <3>2. promise \in 0..MaxLinks /\ \A c \in Calls : joined[c] \in 0..MaxLinks
      BY DEF IInv, TypeOK
    <3> QED  BY <1>1, <1>4, <3>1, <3>2 DEF LinkInv, OneLink, Links
  <2>2. clientSocket = 0  BY <1>1, <1>4 DEF LinkInv, Sockets
  <2>3. Sockets'  BY <1>1, <1>2, <1>4, <2>2 DEF LinkInv, Sockets
  <2>4. Servers'  BY <1>1, <1>2, <1>4 DEF LinkInv, Servers, ServerReady, UnderWay
  <2>5. Losses'  BY <1>1, <1>2, <1>4 DEF LinkInv, Losses, ClientReady, ServerReady, Sending, IsCut
  <2> QED  BY <2>1, <2>3, <2>4, <2>5 DEF LinkInv
<1> QED  BY <1>1, <1>3, <1>4, IfNotBusied

\* A link that fails disturbs nothing.
LEMMA SocketStep ==
  ASSUME IInv, NEW k \in Links, NewSocket(k)
  PROVE  IInv'
<1> USE TransportAssumption
<1>1. /\ run[k] = "create"
      /\ UNCHANGED <<start, wss, serverSocket, served, copies, shutting, closer, lost, disturbed, busied>>
  BY DEF NewSocket, pastVars
<1>2. CASE start = "started"
  <2>1. /\ run' = [run EXCEPT ![k] = "opening"]
        /\ client' = [client EXCEPT ![k] = "connecting"]
        /\ clientSocket' = k
        /\ UNCHANGED <<promise, at, joined>>
    BY <1>2 DEF NewSocket
  <2>2. TypeOK'  BY <1>1, <2>1 DEF IInv, TypeOK, ReadyStates, Links
  <2>3. ASSUME LinkInv PROVE LinkInv'
    <3>1. /\ run'[k] = "opening" /\ client'[k] = "connecting"
          /\ \A j \in Links : j # k => run'[j] = run[j] /\ client'[j] = client[j]
      BY <2>1 DEF IInv, TypeOK
    <3>2. \A j \in Links : j # k => run[j] \notin Active
      BY <1>1, <2>3 DEF LinkInv, OneLink, Active
    <3>3. /\ clientSocket = 0 /\ client[k] = "none" /\ served[k] = "none"
          /\ \A j \in Links : client[j] \notin Live
      BY <1>1, <2>3 DEF LinkInv, Sockets, Links
    <3>4. OneLink'
      <4>1. \A j \in Links : run'[j] \in Active <=> run[j] \in Active
        BY <1>1, <3>1 DEF Active
      <4>2. promise \in 0..MaxLinks /\ \A c \in Calls : joined[c] \in 0..MaxLinks
        BY DEF IInv, TypeOK
      <4> QED  BY <2>1, <2>3, <4>1, <4>2 DEF LinkInv, OneLink, Links
    <3>5. Sockets'
      <4>1. \A x \in Waiters : shutting[x] = 0
        BY <2>3, <3>3 DEF LinkInv, Sockets, Live, IInv, TypeOK, Links
      <4>2. \A j \in Links : j # k => run'[j] \notin {"create", "closing"}
        BY <3>1, <3>2 DEF Active
      <4>3. \A j \in Links : client'[j] \in Live <=> j = k
        BY <3>1, <3>3 DEF Live
      <4>4. \A j \in Links : j # k => client[j] # "connecting"
        BY <3>3 DEF Live
      <4>5. \A j \in Links : /\ run[j] = "none" => client[j] = "none"
                             /\ client[j] = "none" => served[j] = "none"
        BY <2>3 DEF LinkInv, Sockets
      <4> QED  BY <1>1, <2>1, <3>1, <4>1, <4>2, <4>3, <4>4, <4>5 DEF Sockets
    <3>6. Servers'
      <4>1. \A j \in Links : client'[j] \in {"connecting", "open"} /\ served'[j] = "open" => serverSocket' = j
        BY <1>1, <2>3, <3>1, <3>3 DEF LinkInv, Servers
      <4>2. \A j \in Links : run'[j] # "waiting"  BY <3>1, <3>2 DEF Active
      <4> QED  BY <1>1, <2>1, <2>3, <4>1, <4>2 DEF LinkInv, Servers, UnderWay
    <3>7. Losses'
      <4>1. \A j \in Links : run'[j] # "waiting"  BY <3>1, <3>2 DEF Active
      <4>2. ~ClientReady  BY <3>3 DEF ClientReady
      <4>3. \A c \in Calls : at[c] = "write" => c \in disturbed \/ (c \notin Sends /\ ServerReady)
        BY <2>3, <4>2 DEF LinkInv, Losses
      <4> QED  BY <1>1, <2>1, <2>3, <4>1, <4>3 DEF LinkInv, Losses, ServerReady
    <3> QED  BY <3>4, <3>5, <3>6, <3>7 DEF LinkInv
  <2> QED  BY <1>1, <2>2, <2>3, IfNotBusied
<1>3. CASE start # "started"
  <2>1. Settle(k, "failed") /\ UNCHANGED <<client, clientSocket>>
    BY <1>3 DEF NewSocket
  <2>2. run[k] \in Active  BY <1>1 DEF Active
  <2>4. ASSUME LinkInv PROVE LinkInv'
    <3>1. /\ OneLink'
          /\ run'[k] = "failed"
          /\ \A j \in Links : j # k => run'[j] = run[j] /\ run[j] \notin Active
          /\ \A c \in Calls : at'[c] = at[c] \/ (at[c] \in Ensuring /\ at'[c] = "failed")
      BY <2>1, <2>2, <2>4, Settles DEF LinkInv, IInv
    <3>2. Sockets'  BY <1>1, <2>1, <2>4, <3>1 DEF LinkInv, Sockets
    <3>3. \A j \in Links : run'[j] # "waiting"  BY <3>1 DEF Active
    <3>4. \A c \in Calls : UnderWay(c)' => UnderWay(c)
      BY <3>1 DEF UnderWay, Over, Ensuring
    <3>5. Servers'  BY <1>1, <2>1, <2>4, <3>3, <3>4 DEF LinkInv, Servers
    <3>6. Losses'
      <4>1. \A c \in Disconnects : at'[c] \in {"idle", "start", "closing", "done"}
        BY <2>4, <3>1 DEF LinkInv, Losses, Calls, Ensuring
      <4>2. \A c \in Sends : at'[c] # "serving"
        BY <2>4, <3>1 DEF LinkInv, Losses, Calls
      <4>3. \A c \in Calls :
              at'[c] = "write" => c \in disturbed' \/ IF c \in Sends THEN ClientReady' ELSE ServerReady'
        BY <1>1, <2>1, <2>4, <3>1 DEF LinkInv, Losses, ClientReady, ServerReady
      <4> QED  BY <1>1, <2>4, <3>3, <4>1, <4>2, <4>3 DEF LinkInv, Losses
    <3> QED  BY <3>1, <3>2, <3>5, <3>6 DEF LinkInv
  <2>3. TypeOK'  BY <1>1, <2>1, SettleTyped DEF IInv, TypeOK
  <2> QED  BY <1>1, <2>3, <2>4, IfNotBusied
<1> QED  BY <1>2, <1>3
\* The calls that waited for a link find its socket as ServerFound leaves it.
LEMMA ServerFoundStep ==
  ASSUME IInv, NEW k \in Links, ServerFound(k)
  PROVE  IInv'
<1> USE TransportAssumption
<1>1. /\ run[k] = "waiting" /\ ServerReady
      /\ Settle(k, "ok")
      /\ UNCHANGED <<start, wss, clientSocket, serverSocket, client, served, copies, shutting,
                     closer, lost, disturbed, busied>>
  BY DEF ServerFound, pastVars
<1>2. TypeOK'  BY <1>1, SettleTyped DEF IInv, TypeOK
<1>3. run[k] \in Active  BY <1>1 DEF Active
<1>4. ASSUME LinkInv PROVE LinkInv'
  <2>1. /\ OneLink'
        /\ run'[k] = "ok"
        /\ \A j \in Links : j # k => run'[j] = run[j] /\ run[j] \notin Active
        /\ \A c \in Calls :
             at'[c] = at[c] \/ (joined[c] = k /\ at[c] \in Ensuring /\ at'[c] = After(c))
    BY <1>1, <1>3, <1>4, Settles DEF LinkInv, IInv
  <2>2. Sockets'  BY <1>1, <1>4, <2>1 DEF LinkInv, Sockets
  <2>3. \A j \in Links : run'[j] # "waiting"  BY <2>1 DEF Active
  <2>4. \A c \in Calls : After(c) \in {"transmit", "paced", "serving", "write"}
    BY DEF After
  <2>5. \A c \in Calls : UnderWay(c)' => UnderWay(c)
    BY <2>1 DEF UnderWay, Over, Ensuring
  <2>6. Servers'  BY <1>1, <1>4, <2>3, <2>5 DEF LinkInv, Servers
  <2>7. client[k] = "closing" \/ ClientReady
    BY <1>1, <1>4 DEF LinkInv, Servers, Sockets, ClientReady, Live, Links
  <2>8. Losses'
    <3>1. \A c \in Disconnects : at'[c] \in {"idle", "start", "closing", "done"}
      BY <1>4, <2>1 DEF LinkInv, Losses, Calls, Ensuring
    <3>2. ASSUME NEW c \in Sends PROVE at'[c] # "serving"
      <4>1. c \in Calls /\ c \notin Answers  BY DEF Calls
      <4>2. After(c) # "serving"  BY <4>1 DEF After
      <4> QED  BY <1>4, <2>1, <4>1, <4>2 DEF LinkInv, Losses
    <3>3. ASSUME NEW c \in Calls, at'[c] = "write"
          PROVE  c \in disturbed \/ IF c \in Sends THEN ClientReady ELSE ServerReady
      <4>1. CASE at[c] = "write"  BY <1>4, <4>1 DEF LinkInv, Losses
      <4>2. CASE at[c] # "write"
        <5>1. at[c] \in Ensuring /\ After(c) = "write"  BY <2>1, <3>3, <4>2
        <5>2. at[c] = "deliver" /\ c \notin Answers  BY <5>1 DEF After, Ensuring
        <5>3. c \in Sends  BY <1>4, <5>2 DEF LinkInv, Losses, Calls
        <5>4. client[k] = "closing" => c \in disturbed
          BY <1>1, <1>4, <5>2, <5>3 DEF LinkInv, Losses, Sending
        <5> QED  BY <2>7, <5>3, <5>4
      <4> QED  BY <4>1, <4>2
    <3>4. UNCHANGED <<ClientReady, ServerReady>>  BY <1>1 DEF ClientReady, ServerReady
    <3> QED  BY <1>1, <1>4, <2>3, <3>1, <3>2, <3>3, <3>4 DEF LinkInv, Losses
  <2> QED  BY <2>1, <2>2, <2>6, <2>8 DEF LinkInv
<1> QED  BY <1>1, <1>2, <1>4, IfNotBusied

-----------------------------------------------------------------------------
\* The events of the sockets, while no continuation is waiting to run.
LEMMA AcceptStep ==
  ASSUME IInv, NEW k \in Links, Accept(k)
  PROVE  IInv'
<1>1. /\ Quiet /\ client[k] = "connecting" /\ served[k] = "none"
      /\ served' = [served EXCEPT ![k] = "open"]
      /\ serverSocket' = k
      /\ UNCHANGED <<start, wss, promise, run, clientSocket, client, at, joined, copies, shutting,
                     closer, lost, disturbed, busied>>
  BY DEF Accept, callVars, pastVars
<1>2. TypeOK'  BY <1>1, TransportAssumption DEF IInv, TypeOK, ReadyStates, Links
<1>3. ASSUME LinkInv PROVE LinkInv'
  <2>1. run[k] = "opening" /\ clientSocket = k
    BY <1>1, <1>3 DEF LinkInv, Sockets, Live
  <2>2. \A j \in Links : run[j] # "waiting"
    BY <1>3, <2>1 DEF LinkInv, OneLink, Active
  <2>3. /\ served'[k] = "open"
        /\ \A j \in Links : j # k => served'[j] = served[j]
    BY <1>1 DEF IInv, TypeOK
  <2>4. OneLink'  BY <1>1, <1>3 DEF LinkInv, OneLink
  <2>5. Sockets'  BY <1>1, <1>3, <2>3 DEF LinkInv, Sockets
  <2>6. Servers'
    <3>1. \E c \in Calls : UnderWay(c)
      <4>1. PICK c \in Calls : joined[c] = k
        BY <1>3, <2>1 DEF LinkInv, OneLink, Active
      <4>2. at[c] \in Ensuring  BY <1>3, <4>1 DEF LinkInv, OneLink, Links
      <4> QED  BY <4>2 DEF UnderWay, Ensuring, Over
    <3>2. closer \in {"idle", "done"}  BY <1>3, <3>1 DEF LinkInv, Servers
    <3>3. \A j \in Links : client[j] \in {"connecting", "open"} => j = k
      BY <1>3, <2>1 DEF LinkInv, Sockets, Live
    <3> QED  BY <1>1, <2>2, <3>2, <3>3 DEF Servers
  <2>7. Losses'  BY <1>1, <1>3 DEF LinkInv, Losses, Quiet, Sending, IsCut
  <2> QED  BY <2>4, <2>5, <2>6, <2>7 DEF LinkInv
<1> QED  BY <1>1, <1>2, <1>3, IfNotBusied

LEMMA OpensStep ==
  ASSUME IInv, NEW k \in Links, Opens(k)
  PROVE  IInv'
<1>1. /\ Quiet /\ client[k] = "connecting" /\ served[k] = "open"
      /\ client' = [client EXCEPT ![k] = "open"]
      /\ run' = [run EXCEPT ![k] = "waiting"]
      /\ UNCHANGED <<start, wss, promise, clientSocket, serverSocket, served, at, joined, copies,
                     shutting, closer, lost, disturbed, busied>>
  BY DEF Opens, callVars, pastVars
<1>2. TypeOK'  BY <1>1 DEF IInv, TypeOK, ReadyStates
<1>3. ASSUME LinkInv PROVE LinkInv'
  <2>1. run[k] = "opening" /\ clientSocket = k /\ serverSocket = k
    BY <1>1, <1>3 DEF LinkInv, Sockets, Servers, Live
  <2>2. \A j \in Links : run[j] \in Active => j = k
    BY <1>3, <2>1 DEF LinkInv, OneLink, Active
  <2>3. /\ client'[k] = "open" /\ run'[k] = "waiting"
        /\ \A j \in Links : j # k => client'[j] = client[j] /\ run'[j] = run[j]
    BY <1>1 DEF IInv, TypeOK
  <2>4. OneLink'
    <3>1. \A j \in Links : run'[j] \in Active <=> run[j] \in Active
      BY <2>1, <2>3 DEF Active
    <3>2. promise \in 0..MaxLinks /\ \A c \in Calls : joined[c] \in 0..MaxLinks
      BY DEF IInv, TypeOK
    <3> QED  BY <1>1, <1>3, <3>1, <3>2 DEF LinkInv, OneLink, Links
  <2>5. Sockets'
    <3>1. \A x \in Waiters : shutting[x] # 0 => client'[shutting[x]] = "closing"
      <4>1. ASSUME NEW x \in Waiters, shutting[x] # 0 PROVE client'[shutting[x]] = "closing"
        <5>1. client[shutting[x]] = "closing" /\ shutting[x] \in Links
          BY <1>3, <4>1 DEF LinkInv, Sockets, IInv, TypeOK, Links
        <5> QED  BY <1>1, <2>3, <5>1
      <4> QED  BY <4>1
    <3> QED  BY <1>1, <1>3, <2>1, <2>3, <3>1 DEF LinkInv, Sockets, Live
  <2>6. Servers'
    <3>1. ServerReady'  BY <1>1, <2>1 DEF ServerReady, Links
    <3>2. \A j \in Links : run'[j] = "waiting" => j = k  BY <2>2, <2>3 DEF Active
    <3>3. \A j \in Links : client'[j] \in {"connecting", "open"} => client[j] \in {"connecting", "open"}
      BY <1>1, <2>3
    <3> QED  BY <1>1, <1>3, <2>3, <3>1, <3>2, <3>3 DEF LinkInv, Servers, UnderWay
  <2>7. Losses'
    <3>1. \A j \in Links : ~(run'[j] = "waiting" /\ client'[j] = "closing")
      BY <2>2, <2>3 DEF Active
    <3> QED  BY <1>1, <1>3, <3>1 DEF LinkInv, Losses, Quiet
  <2> QED  BY <2>4, <2>5, <2>6, <2>7 DEF LinkInv
<1> QED  BY <1>1, <1>2, <1>3, IfNotBusied

\* The server's end of a link closes: no link waits for it.
LEMMA ServerEndSteps ==
  ASSUME IInv, NEW k \in Links, ServerSees(k) \/ ServerCloses(k)
  PROVE  IInv'
<1>1. /\ Quiet
      /\ \/ /\ served[k] = "open" /\ client[k] \in {"closing", "closed"}
            /\ served' = [served EXCEPT ![k] = "closing"]
            /\ serverSocket' = serverSocket
         \/ /\ served[k] = "closing"
            /\ served' = [served EXCEPT ![k] = "closed"]
            /\ serverSocket' = IF serverSocket = k THEN 0 ELSE serverSocket
      /\ UNCHANGED <<start, wss, promise, run, clientSocket, client, at, joined, copies, shutting,
                     closer, lost, disturbed, busied>>
  BY DEF ServerSees, ServerCloses, callVars, pastVars
<1>2. TypeOK'  BY <1>1, TransportAssumption DEF IInv, TypeOK, ReadyStates
<1>3. ASSUME LinkInv PROVE LinkInv'
  <2>1. /\ served'[k] \in {"closing", "closed"}
        /\ \A j \in Links : j # k => served'[j] = served[j]
    BY <1>1 DEF IInv, TypeOK
  <2>2. \A j \in Links : run[j] # "waiting"
    BY <1>1, <1>3 DEF LinkInv, Servers, Quiet
  <2>3. OneLink'  BY <1>1, <1>3 DEF LinkInv, OneLink
  <2>4. Sockets'
    <3>1. \A j \in Links : client[j] = "none" => served'[j] = "none"
      BY <1>1, <1>3, <2>1 DEF LinkInv, Sockets
    <3> QED  BY <1>1, <1>3, <3>1 DEF LinkInv, Sockets
  <2>5. Servers'
    <3>1. ASSUME NEW j \in Links, client[j] \in {"connecting", "open"}, served'[j] = "open"
          PROVE  serverSocket' = j
      <4>1. j # k /\ served[j] = "open"  BY <2>1, <3>1
      <4>2. serverSocket = j  BY <1>3, <3>1, <4>1 DEF LinkInv, Servers
      <4> QED  BY <1>1, <4>1, <4>2
    <3>2. closer = "stopping" => wss = "closed" /\ \A j \in Links : served'[j] # "open"
      BY <1>3, <2>1 DEF LinkInv, Servers
    <3> QED  BY <1>1, <1>3, <2>2, <3>1, <3>2 DEF LinkInv, Servers, UnderWay
  <2>6. Losses'  BY <1>1, <1>3, <2>2 DEF LinkInv, Losses, Quiet
  <2> QED  BY <2>3, <2>4, <2>5, <2>6 DEF LinkInv
<1> QED  BY <1>1, <1>2, <1>3, IfNotBusied
\* The client's end closes: every closeClientSocket() there is awaited it.
LEMMA ClientClosesStep ==
  ASSUME IInv, NEW k \in Links, ClientCloses(k)
  PROVE  IInv'
<1> USE TransportAssumption
<1>1. /\ Quiet /\ client[k] = "closing"
      /\ client' = [client EXCEPT ![k] = "closed"]
      /\ Forget(k)
      /\ IF run[k] = "opening" THEN Settle(k, "failed") ELSE UNCHANGED <<run, promise, at, joined>>
      /\ UNCHANGED <<start, wss, serverSocket, served, copies, closer, lost, disturbed, busied>>
  BY DEF ClientCloses, pastVars
<1>2. TypeOK'
  <2>1. /\ promise' \in 0..MaxLinks
        /\ run' \in [Links -> {"none", "closing", "create", "opening", "waiting", "ok", "failed"}]
        /\ at' \in [Calls -> {"idle", "start", "transmit", "cutting", "paced", "serving", "write",
                              "closing"} \cup Ensuring \cup Over]
        /\ joined' \in [Calls -> 0..MaxLinks]
    <3>1. CASE run[k] = "opening"  BY <1>1, <3>1, SettleTyped DEF IInv
    <3>2. CASE run[k] # "opening"  BY <1>1, <3>2 DEF IInv, TypeOK
    <3> QED  BY <3>1, <3>2
  <2>2. clientSocket' \in 0..MaxLinks /\ shutting' \in [Waiters -> 0..MaxLinks]
    BY <1>1 DEF IInv, TypeOK, Forget
  <2>3. client' \in [Links -> ReadyStates]  BY <1>1 DEF IInv, TypeOK, ReadyStates
  <2> QED  BY <1>1, <2>1, <2>2, <2>3 DEF IInv, TypeOK
<1>3. ASSUME LinkInv PROVE LinkInv'
  <2>1. /\ client'[k] = "closed"
        /\ \A j \in Links : j # k => client'[j] = client[j]
    BY <1>1 DEF IInv, TypeOK
  <2>2. /\ clientSocket = k
        /\ \A j \in Links : j # k => client[j] \notin Live
    BY <1>1, <1>3 DEF LinkInv, Sockets, Live
  <2>3. \A x \in Waiters : shutting[x] \in {0, k}
    BY <1>3, <2>2 DEF LinkInv, Sockets, Live, IInv, TypeOK, Links
  <2>4. clientSocket' = 0 /\ \A x \in Waiters : shutting'[x] = 0
    BY <1>1, <2>2, <2>3 DEF Forget
  <2>5. \A j \in Links : run[j] \notin {"waiting", "create"}
    BY <1>1, <1>3 DEF LinkInv, Servers, Quiet
  <2>6. /\ OneLink'
        /\ \A j \in Links : run'[j] = run[j] \/ (j = k /\ run'[j] = "failed")
        /\ \A c \in Calls : at'[c] = at[c] \/ (at[c] \in Ensuring /\ at'[c] = "failed")
    <3>1. CASE run[k] = "opening"
      <4>1. run[k] \in Active /\ OneLink /\ Settle(k, "failed")
        BY <1>1, <1>3, <3>1 DEF Active, LinkInv
      <4> QED  BY <4>1, Settles DEF IInv
    <3>2. CASE run[k] # "opening"  BY <1>1, <1>3, <3>2 DEF LinkInv, OneLink
    <3> QED  BY <3>1, <3>2
  <2>7. Sockets'
    <3>1. \A j \in Links : client'[j] \notin Live  BY <2>1, <2>2 DEF Live
    <3>2. \A j \in Links : client'[j] = "none" => served'[j] = "none"
      BY <1>1, <1>3, <2>1 DEF LinkInv, Sockets
    <3>3. \A j \in Links : run'[j] \in {"none", "closing", "create"} => client'[j] = "none"
      BY <1>1, <1>3, <2>1, <2>6 DEF LinkInv, Sockets
    <3>4. \A j \in Links : client'[j] # "connecting"  BY <3>1 DEF Live
    <3> QED  BY <2>4, <3>1, <3>2, <3>3, <3>4 DEF Sockets
  <2>8. \A c \in Calls : UnderWay(c)' => UnderWay(c)
    BY <2>6 DEF UnderWay, Over, Ensuring
  <2>9. Servers'
    <3>1. \A j \in Links : run'[j] # "waiting"  BY <2>5, <2>6
    <3>2. \A j \in Links : client'[j] \in {"connecting", "open"} => client'[j] = client[j]
      BY <2>1
    <3> QED  BY <1>1, <1>3, <2>8, <3>1, <3>2 DEF LinkInv, Servers
  <2>10. Losses'
    <3>1. \A j \in Links : run'[j] # "waiting"  BY <2>5, <2>6
    <3>2. \A c \in Calls : at'[c] # "write"  BY <1>1, <2>6 DEF Quiet
    <3>3. \A c \in Disconnects : at'[c] \in {"idle", "start", "closing", "done"}
      BY <1>3, <2>6 DEF LinkInv, Losses, Calls, Ensuring
    <3>4. \A c \in Sends : at'[c] # "serving"
      BY <1>3, <2>6 DEF LinkInv, Losses, Calls
    <3> QED  BY <1>1, <1>3, <3>1, <3>2, <3>3, <3>4 DEF LinkInv, Losses
  <2> QED  BY <2>6, <2>7, <2>9, <2>10 DEF LinkInv
<1> QED  BY <1>1, <1>2, <1>3, IfNotBusied

-----------------------------------------------------------------------------
\* close() starts to close the client socket ...
LEMMA CloseStep ==
  ASSUME IInv, Close
  PROVE  IInv'
<1> USE TransportAssumption
<1>1. /\ closer = "idle" /\ start = "started"
      /\ closer' = "closing"
      /\ busied' = \E c \in Calls : UnderWay(c)
      /\ IF clientSocket = 0 THEN UNCHANGED <<client, shutting, disturbed>> ELSE CloseClientSocket(TheClose)
      /\ UNCHANGED <<start, wss, promise, run, clientSocket, serverSocket, served, at, joined,
                     copies, lost>>
  BY DEF Close, callVars
<1>2. TypeOK'
  <2>1. /\ client' \in [Links -> ReadyStates] /\ shutting' \in [Waiters -> 0..MaxLinks]
        /\ disturbed' \subseteq Calls
    BY <1>1 DEF IInv, TypeOK, CloseClientSocket, ReadyStates
  <2>2. busied' \in BOOLEAN  BY <1>1, Zenon
  <2>3. closer' \in {"idle", "closing", "draining", "stopping", "done"}  BY <1>1
  <2> QED  BY <1>1, <2>1, <2>2, <2>3 DEF IInv, TypeOK
<1>3. LinkInv
  <2>1. ~busied  BY <1>1 DEF IInv
  <2> QED  BY <2>1 DEF IInv
<1>4. ASSUME ~busied' PROVE LinkInv'
  <2>1. \A c \in Calls : ~UnderWay(c)
    <3>1. ~ \E c \in Calls : UnderWay(c)  BY <1>1, <1>4, Zenon
    <3> QED  BY <3>1
  <2>2. \A c \in Calls : ~UnderWay(c)'  BY <1>1, <2>1 DEF UnderWay
  <2>3. OneLink'  BY <1>1, <1>3 DEF LinkInv, OneLink
  <2>4. CASE clientSocket = 0
    <3>1. UNCHANGED <<client, shutting, disturbed>>  BY <1>1, <2>4
    <3>2. Sockets'  BY <1>1, <1>3, <3>1 DEF LinkInv, Sockets
    <3>3. Servers'  BY <1>1, <1>3, <2>2, <3>1 DEF LinkInv, Servers, ServerReady
    <3>4. Losses'
      BY <1>1, <1>3, <3>1 DEF LinkInv, Losses, ClientReady, ServerReady, Sending, IsCut
    <3> QED  BY <2>3, <3>2, <3>3, <3>4 DEF LinkInv
  <2>5. CASE clientSocket # 0
    <3>1. TheClose \in Waiters /\ TheClose \notin Calls /\ CloseClientSocket(TheClose)
      BY <1>1, <2>5 DEF TheClose, Waiters, Calls
    <3>2. \A c \in Disconnects : at'[c] # "cutting"
      BY <1>1, <1>3 DEF LinkInv, Losses
    <3>3. \A c \in Calls :
            IF c = TheClose THEN at'[c] \in {"cutting", "closing"} ELSE at'[c] = at[c]
      BY <1>1, <3>1
    <3>4. /\ closer' # "stopping"
          /\ closer' \notin {"idle", "done"} => start' = "started" /\ \A c \in Calls : ~UnderWay(c)'
      BY <1>1, <2>2
    <3>5. TypeOK  BY DEF IInv
    <3>6. Sockets' /\ Servers' /\ Losses'
      BY <1>1, <1>3, <3>1, <3>2, <3>3, <3>4, <3>5, SocketCloses
    <3> QED  BY <2>3, <3>6 DEF LinkInv
  <2> QED  BY <2>4, <2>5
<1>5. closer' = "idle" => ~busied'  BY <1>1
<1> QED  BY <1>2, <1>4, <1>5 DEF IInv

\* ... and clears the fields when no call and so no link is left.
LEMMA CloseEndsStep ==
  ASSUME IInv, CloseEnds
  PROVE  IInv'
<1> USE TransportAssumption
<1>1. /\ closer = "stopping" /\ closer' = "done"
      /\ start' = "none" /\ promise' = 0 /\ serverSocket' = 0
      /\ client' = [k \in Links |-> IF client[k] = "connecting" THEN "closing" ELSE client[k]]
      /\ UNCHANGED <<wss, run, clientSocket, served, at, joined, copies, shutting, lost, disturbed, busied>>
  BY DEF CloseEnds, callVars, pastVars
<1>2. TypeOK'  BY <1>1 DEF IInv, TypeOK, ReadyStates
<1>3. ASSUME LinkInv PROVE LinkInv'
  <2>1. \A c \in Calls : ~UnderWay(c)  BY <1>1, <1>3 DEF LinkInv, Servers
  <2>2. \A c \in Calls : joined[c] = 0
    BY <1>3, <2>1 DEF LinkInv, OneLink, UnderWay, Ensuring, Over
  <2>3. \A k \in Links : run[k] \notin Active
    BY <1>3, <2>2 DEF LinkInv, OneLink, Links
  <2>4. \A k \in Links : client'[k] = client[k] /\ client[k] # "connecting"
    BY <1>1, <1>3, <2>3 DEF LinkInv, Sockets, Active
  <2>5. OneLink'  BY <1>1, <2>2, <2>3 DEF OneLink
  <2>6. Sockets'
    <3>1. clientSocket # 0 => clientSocket \in Links  BY DEF IInv, TypeOK, Links
    <3>2. \A x \in Waiters : shutting[x] # 0 => shutting[x] \in Links  BY DEF IInv, TypeOK, Links
    <3> QED  BY <1>1, <1>3, <2>4, <3>1, <3>2 DEF LinkInv, Sockets
  <2>7. Servers'
    <3>1. \A k \in Links : served[k] # "open" /\ run[k] # "waiting"
      BY <1>1, <1>3, <2>3 DEF LinkInv, Servers, Active
    <3> QED  BY <1>1, <3>1 DEF Servers
  <2>8. Losses'
    <3>1. \A c \in Calls : at[c] \in {"idle"} \cup Over  BY <2>1 DEF UnderWay
    <3>2. \A k \in Links : run[k] # "waiting"  BY <2>3 DEF Active
    <3> QED  BY <1>1, <1>3, <3>1, <3>2 DEF LinkInv, Losses, Over
  <2> QED  BY <2>5, <2>6, <2>7, <2>8 DEF LinkInv
<1>4. closer' = "idle" => ~busied'  BY <1>1
<1> QED  BY <1>1, <1>2, <1>3, <1>4 DEF IInv

-----------------------------------------------------------------------------
LEMMA NextKeeps == IInv /\ [Next]_vars => IInv'
<1> SUFFICES ASSUME IInv, [Next]_vars PROVE IInv'  OBVIOUS
<1>1. ASSUME NEW c \in Calls, Begin(c) \/ Proceed(c) PROVE IInv'
  BY <1>1, CallSteps, ServerSteps, CutSteps, ConnectStep, JoinStep DEF Proceed
<1>2. ASSUME NEW k \in Links, Link(k) PROVE IInv'
  BY <1>2, OldClosedStep, SocketStep, ServerFoundStep, AcceptStep, OpensStep, ServerEndSteps,
     ClientClosesStep DEF Link
<1>3. CASE Listening \/ CloseNothing  BY <1>3, ServerSteps
<1>4. CASE Close  BY <1>4, CloseStep
<1>5. CASE Closing  BY <1>5, ServerSteps, CloseEndsStep DEF Closing
<1>6. CASE UNCHANGED vars
  <2>1. /\ UNCHANGED <<linkVars, callVars, shutting, pastVars, start, wss, closer>>
    BY <1>6 DEF vars
  <2> QED  BY <2>1, ServerStep DEF IInv, TypeOK, LinkInv, Servers
<1> QED  BY <1>1, <1>2, <1>3, <1>4, <1>5, <1>6 DEF Next

\* The links, sockets and calls agree as IInv says, however many there are.
THEOREM Invariance == Spec => []IInv
<1>1. Init => IInv  BY Initially
<1>2. IInv /\ [Next]_vars => IInv'  BY NextKeeps
<1> QED  BY <1>1, <1>2, PTL DEF Spec

\* No open client socket is ever forgotten by ensureClientConnected() and
\* closeClientSocket(), for any calls, faults and reconnects.
THEOREM SocketsAreKept == Spec => []NoneForgotten
<1>1. IInv => NoneForgotten
  BY DEF IInv, LinkInv, Sockets, Live, NoneForgotten
<1> QED  BY <1>1, Invariance, PTL

\* What the agent host emits goes out on the link that is open, unless a call
\* was under way during close().
THEOREM AnswersArrive == Spec => [](busied \/ AnswersFindTheLink)
<1>1. IInv => busied \/ AnswersFindTheLink
  BY DEF IInv, LinkInv, Servers, AnswersFindTheLink
<1> QED  BY <1>1, Invariance, PTL

\* sendEnvelope() and sendToClient() lose an envelope silently only when
\* another call closed the client socket meanwhile, or close() was at work.
THEOREM LossesAreDisturbed == Spec => [](busied \/ LostOnlyWhenDisturbed)
<1>1. IInv => busied \/ LostOnlyWhenDisturbed
  BY DEF IInv, LinkInv, Losses, LostOnlyWhenDisturbed
<1> QED  BY <1>1, Invariance, PTL

-----------------------------------------------------------------------------
(***************************************************************************)
(* Liveness: close() returns.                                              *)
(***************************************************************************)

\* close() is at work and no call is.
Alone == closer \in {"closing", "draining", "stopping"} /\ ~busied

\* Nothing is left to happen to the two ends of a link.
Still(k) == client[k] # "closing" /\ served[k] \in {"none", "closed"}

\* States in which link k can take a step towards that.
CanMove(k) ==
  /\ Quiet
  /\ \/ client[k] = "closing"
     \/ served[k] = "closing"
     \/ client[k] = "closed" /\ served[k] = "open"

\* States in which close() can go on.
CanClose ==
  /\ \A k \in Links : client[k] # "connecting"
  /\ \/ closer = "closing" /\ shutting[TheClose] = 0
     \/ closer = "draining" /\ \A k \in Links : served[k] \in {"none", "closed"}
     \/ closer = "stopping"

CloseGoesOn == Closing /\ \A k \in Links : client[k] # "connecting"

\* The fairness that LocalTransport states for the sockets and for close().
ServedSpec ==
  /\ Spec
  /\ \A k \in Links : []<>~CanMove(k) \/ []<><<Link(k)>>_vars
  /\ []<>~CanClose \/ []<><<CloseGoesOn>>_vars

\* True of every behaviour, as the links are finitely many: if each is still for
\* good at some time, then at some time all are.  (It takes induction over their
\* number to prove, which tlapm cannot do with temporal formulas.)
AllAtOnce == (\A k \in Links : <>[]Still(k)) => <>[](\A k \in Links : Still(k))

\* While close() is alone, no link is being opened.
LEMMA NothingOpens ==
  ASSUME IInv, Alone
  PROVE  /\ start = "started"
         /\ \A c \in Calls : ~UnderWay(c)
         /\ \A k \in Links : run[k] \notin Active /\ client[k] # "connecting"
<1>1. TypeOK /\ OneLink /\ Sockets /\ Servers  BY DEF IInv, LinkInv, Alone
<1>2. start = "started" /\ \A c \in Calls : ~UnderWay(c)  BY <1>1 DEF Servers, Alone
<1>3. ASSUME NEW k \in Links PROVE run[k] \notin Active
  <2>1. SUFFICES ASSUME run[k] \in Active PROVE FALSE  OBVIOUS
  <2>2. PICK c \in Calls : joined[c] = k  BY <1>1, <2>1 DEF OneLink
  <2>3. joined[c] # 0  BY <2>2 DEF Links
  <2>4. at[c] \in Ensuring  BY <1>1, <2>3 DEF OneLink
  <2> QED  BY <1>2, <2>4 DEF UnderWay, Ensuring, Over
<1>4. \A k \in Links : client[k] = "connecting" => run[k] = "opening"  BY <1>1 DEF Sockets
<1> QED  BY <1>2, <1>3, <1>4 DEF Active

\* So it is left to the sockets and to close() itself, or to a new call.
LEMMA AloneStep ==
  ASSUME IInv, [Next]_vars, Alone
  PROVE  \/ busied'
         \/ /\ \E k \in Links : ServerSees(k) \/ ClientCloses(k) \/ ServerCloses(k)
            /\ UNCHANGED <<closer, busied>>
         \/ Closing /\ UNCHANGED <<served, shutting, busied>>
         \/ UNCHANGED vars
<1>1. /\ start = "started"
      /\ \A c \in Calls : ~UnderWay(c)
      /\ \A k \in Links : run[k] \notin Active /\ client[k] # "connecting"
  BY NothingOpens
<1>2. ASSUME NEW c \in Calls, Begin(c) PROVE busied'
  BY <1>2 DEF Begin, Alone
<1>3. ASSUME NEW c \in Calls, Proceed(c) PROVE FALSE
  <2>1. at[c] \in {"idle"} \cup Over  BY <1>1 DEF UnderWay
  <2>2. at[c] \notin {"start", "transmit", "cutting", "paced", "serving", "write", "closing"} \cup Ensuring
    BY <2>1 DEF Over, Ensuring
  <2> QED
    BY <1>1, <1>3, <2>2 DEF Proceed, EnsureStarted, Ensured, Join, Connect, Cut, Reconnect, Drop, Deliver,
         ServerAwaited, ServerMissed, Write, Disconnect, Disconnected, Paced, IsCut
<1>4. ASSUME NEW k \in Links, Link(k)
      PROVE  /\ ServerSees(k) \/ ClientCloses(k) \/ ServerCloses(k)
             /\ UNCHANGED <<closer, busied>>
  <2>1. run[k] \notin {"closing", "create", "opening", "waiting"} /\ client[k] # "connecting"
    BY <1>1 DEF Active
  <2>2. ~OldClosed(k) /\ ~NewSocket(k) /\ ~ServerFound(k) /\ ~Accept(k) /\ ~Opens(k)
    BY <2>1 DEF OldClosed, NewSocket, ServerFound, Accept, Opens
  <2>3. ServerSees(k) \/ ClientCloses(k) \/ ServerCloses(k)  BY <1>4, <2>2 DEF Link
  <2> QED  BY <2>3 DEF ServerSees, ClientCloses, ServerCloses, pastVars
<1>5. ASSUME Listening \/ Close \/ CloseNothing PROVE FALSE
  BY <1>1, <1>5 DEF Listening, Close, CloseNothing, Alone
<1>6. ASSUME Closing PROVE UNCHANGED <<served, shutting, busied>>
  BY <1>6 DEF Closing, CloseWss, WssCloses, CloseEnds, linkVars, pastVars
<1> QED  BY <1>2, <1>3, <1>4, <1>5, <1>6 DEF Next

\* What such a step does to a link: the server sees the client close, and each
\* end closes.
LEMMA EndsClose ==
  ASSUME IInv, NEW j \in Links, ServerSees(j) \/ ClientCloses(j) \/ ServerCloses(j), Alone
  PROVE  /\ \A k \in Links \ {j} : client'[k] = client[k] /\ served'[k] = served[k]
         /\ \/ /\ served[j] = "open" /\ client[j] \in {"closing", "closed"}
               /\ served'[j] = "closing" /\ client'[j] = client[j]
            \/ /\ client[j] = "closing" /\ served[j] # "open"
               /\ client'[j] = "closed" /\ served'[j] = served[j]
            \/ /\ served[j] = "closing"
               /\ served'[j] = "closed" /\ client'[j] = client[j]
         /\ shutting'[TheClose] \in {0, shutting[TheClose]}
<1>1. /\ run[j] # "opening"
      /\ client \in [Links -> ReadyStates] /\ served \in [Links -> ReadyStates \ {"connecting"}]
      /\ TheClose \in Waiters
  BY NothingOpens DEF Active, IInv, TypeOK, Waiters
<1>2. CASE ServerSees(j)  BY <1>1, <1>2 DEF ServerSees
<1>3. CASE ServerCloses(j)  BY <1>1, <1>3 DEF ServerCloses
<1>4. CASE ClientCloses(j)  BY <1>1, <1>4 DEF ClientCloses, Forget
<1> QED  BY <1>2, <1>3, <1>4

\* close() has closed the client's socket, and nobody has opened another.
NoneOpen == Alone => \A k \in Links : client[k] # "open"

LEMMA NoneOpenStep == IInv /\ NoneOpen /\ [Next]_vars => NoneOpen'
<1> SUFFICES ASSUME IInv, NoneOpen, [Next]_vars, Alone'
             PROVE  \A k \in Links : client'[k] # "open"
  BY DEF NoneOpen
<1>1. CASE Alone
  <2>1. \A k \in Links : client[k] # "open"  BY <1>1 DEF NoneOpen
  <2>2. ~busied'  BY DEF Alone
  <2>3. CASE \E j \in Links : ServerSees(j) \/ ClientCloses(j) \/ ServerCloses(j)
    BY <1>1, <2>1, <2>3, EndsClose
  <2>4. CASE Closing
    BY <2>1, <2>4 DEF Closing, CloseWss, WssCloses, CloseEnds, linkVars
  <2>5. CASE UNCHANGED vars  BY <2>1, <2>5 DEF vars, linkVars
  <2> QED  BY <1>1, <2>2, <2>3, <2>4, <2>5, AloneStep
<1>2. CASE ~Alone
  <2>1. CASE Close
    <3>1. closer = "idle" /\ ~busied /\ Sockets /\ TypeOK
      BY <2>1 DEF Close, IInv, LinkInv
    <3>2. IF clientSocket = 0 THEN client' = client
          ELSE client' = [client EXCEPT ![clientSocket] = "closing"]
      BY <2>1 DEF Close, CloseClientSocket
    <3>3. \A k \in Links : client[k] = "open" => clientSocket = k  BY <3>1 DEF Sockets, Live
    <3>4. 0 \notin Links /\ client \in [Links -> ReadyStates]  BY <3>1 DEF Links, TypeOK
    <3> QED  BY <3>2, <3>3, <3>4
  <2>2. CASE ~Close
    <3>1. closer' \in {"closing", "draining", "stopping"} /\ ~busied'  BY DEF Alone
    <3>2. ASSUME NEW c \in Calls, Begin(c) \/ Proceed(c)
          PROVE  closer' = closer /\ (busied => busied')
      <4>1. CASE Begin(c)  BY <4>1 DEF Begin
      <4>2. CASE EnsureStarted(c) \/ Ensured(c) \/ Join(c)
        BY <4>2 DEF EnsureStarted, Ensured, Join, pastVars
      <4>3. CASE Connect(c)  BY <4>3 DEF Connect
      <4>4. CASE Cut(c) \/ Disconnect(c)  BY <4>4 DEF Cut, Disconnect
      <4>5. CASE Reconnect(c) \/ Drop(c) \/ Deliver(c)  BY <4>5 DEF Reconnect, Drop, Deliver, pastVars
      <4>6. CASE ServerAwaited(c) \/ ServerMissed(c) \/ Write(c) \/ Disconnected(c)
        BY <4>6 DEF ServerAwaited, ServerMissed, Write, Disconnected, pastVars
      <4> QED  BY <3>2, <4>1, <4>2, <4>3, <4>4, <4>5, <4>6 DEF Proceed
    <3>3. ASSUME NEW k \in Links, Link(k)
          PROVE  closer' = closer /\ busied' = busied
      BY <3>3 DEF Link, OldClosed, NewSocket, ServerFound, Accept, Opens, ServerSees, ClientCloses,
         ServerCloses, pastVars
    <3>4. Listening => closer' = closer /\ busied' = busied  BY DEF Listening, pastVars
    <3>5. CloseNothing => closer' = "done"  BY DEF CloseNothing
    <3>6. Closing => closer \in {"closing", "draining", "stopping"} /\ busied' = busied
      BY DEF Closing, CloseWss, WssCloses, CloseEnds, pastVars
    <3>7. UNCHANGED vars => closer' = closer /\ busied' = busied  BY DEF vars, pastVars
    <3> QED  BY <1>2, <2>2, <3>1, <3>2, <3>3, <3>4, <3>5, <3>6, <3>7 DEF Next, Alone
  <2> QED  BY <2>1, <2>2
<1> QED  BY <1>1, <1>2

LEMMA NoneOpenInvariance == Spec => [](IInv /\ NoneOpen)
<1>1. Init => NoneOpen  BY DEF Init, NoneOpen, Alone
<1> QED  BY <1>1, Invariance, NoneOpenStep, PTL DEF Spec

\* While close() is alone and waits for its own socket, or for the server's,
\* no continuation is in the way of the sockets.
LEMMA CloseWaits ==
  ASSUME IInv, Alone, closer = "closing" => shutting[TheClose] # 0
  PROVE  Quiet
<1>1. /\ start = "started"
      /\ \A c \in Calls : ~UnderWay(c)
      /\ \A k \in Links : run[k] \notin Active
  BY NothingOpens
<1>2. \A c \in Calls : at[c] # "write" /\ at[c] \notin Ensuring
  BY <1>1 DEF UnderWay, Ensuring, Over
<1> QED  BY <1>1, <1>2 DEF Quiet, Active

\* From where close() is alone it goes on in this order.
LEMMA CloserMoves ==
  ASSUME IInv, [Next]_vars, Alone, ~busied'
  PROVE  /\ closer = "closing" => closer' \in {"closing", "draining"}
         /\ closer = "draining" => closer' \in {"draining", "stopping"}
         /\ closer = "stopping" => closer' \in {"stopping", "done"}
         /\ shutting[TheClose] = 0 => shutting'[TheClose] = 0
<1>1. CASE \E k \in Links : ServerSees(k) \/ ClientCloses(k) \/ ServerCloses(k)
  <2>1. PICK k \in Links : ServerSees(k) \/ ClientCloses(k) \/ ServerCloses(k)  BY <1>1
  <2>2. shutting'[TheClose] \in {0, shutting[TheClose]}  BY <2>1, EndsClose
  <2>3. closer' = closer  BY <2>1 DEF ServerSees, ClientCloses, ServerCloses
  <2> QED  BY <2>2, <2>3
<1>2. CASE Closing  BY <1>2 DEF Closing, CloseWss, WssCloses, CloseEnds
<1>3. CASE UNCHANGED vars  BY <1>3 DEF vars
<1> QED  BY <1>1, <1>2, <1>3, AloneStep

\* Each end of link k in turn: what is left of a link that closes.
Places(k) == <<client[k], served[k]>>

LEMMA LinkMoves ==
  ASSUME IInv, NoneOpen, [Next]_vars, Alone, ~busied', NEW k \in Links
  PROVE  /\ Still(k) => Still(k)'
         /\ Places(k)' = Places(k) \/ Link(k)
         /\ Link(k) /\ client[k] = "closing" /\ served[k] = "open" =>
              client'[k] = "closing" /\ served'[k] = "closing"
         /\ Link(k) /\ client[k] = "closing" /\ served[k] = "closing" =>
              \/ client'[k] = "closed" /\ served'[k] = "closing"
              \/ client'[k] = "closing" /\ served'[k] = "closed"
         /\ Link(k) /\ client[k] = "closing" /\ served[k] \in {"none", "closed"} => Still(k)'
         /\ Link(k) /\ client[k] = "closed" /\ served[k] = "open" =>
              client'[k] = "closed" /\ served'[k] = "closing"
         /\ Link(k) /\ client[k] = "closed" /\ served[k] = "closing" => Still(k)'
<1>0. /\ client \in [Links -> ReadyStates] /\ served \in [Links -> ReadyStates \ {"connecting"}]
      /\ client[k] # "connecting" /\ run[k] \notin Active
      /\ \A j \in Links : client[j] # "connecting"
  BY NothingOpens DEF IInv, TypeOK
<1>1. ASSUME NEW j \in Links, ServerSees(j) \/ ClientCloses(j) \/ ServerCloses(j), j # k
      PROVE  client'[k] = client[k] /\ served'[k] = served[k]
  BY <1>1, EndsClose
<1>2. ASSUME Link(k)
      PROVE  \/ /\ served[k] = "open" /\ client[k] \in {"closing", "closed"}
                /\ served'[k] = "closing" /\ client'[k] = client[k]
             \/ /\ client[k] = "closing" /\ served[k] # "open"
                /\ client'[k] = "closed" /\ served'[k] = served[k]
             \/ /\ served[k] = "closing"
                /\ served'[k] = "closed" /\ client'[k] = client[k]
  <2>1. run[k] \notin {"closing", "create", "waiting"}  BY <1>0 DEF Active
  <2>2. ServerSees(k) \/ ClientCloses(k) \/ ServerCloses(k)
    BY <1>0, <1>2, <2>1 DEF Link, OldClosed, NewSocket, ServerFound, Accept, Opens
  <2> QED  BY <2>2, EndsClose
<1>3. ASSUME Closing
      PROVE  client'[k] = client[k] /\ served'[k] = served[k]
  BY <1>0, <1>3 DEF Closing, CloseWss, WssCloses, CloseEnds, linkVars
<1>4. UNCHANGED vars => client'[k] = client[k] /\ served'[k] = served[k]  BY DEF vars, linkVars
<1>5. (client'[k] = client[k] /\ served'[k] = served[k]) \/ Link(k)
  BY <1>1, <1>3, <1>4, AloneStep DEF Link
<1> QED  BY <1>0, <1>2, <1>5 DEF Still, Places, ReadyStates

\* The places a link can be in while close() is alone.
LEMMA LinkPlaces ==
  ASSUME IInv, NoneOpen, Alone, NEW k \in Links
  PROVE  \/ Still(k)
         \/ client[k] = "closing" /\ served[k] \in {"none", "open", "closing", "closed"}
         \/ client[k] = "closed" /\ served[k] \in {"open", "closing"}
<1>1. client[k] \in ReadyStates /\ served[k] \in ReadyStates \ {"connecting"}
  BY DEF IInv, TypeOK
<1>2. client[k] # "connecting" /\ client[k] # "open"  BY NothingOpens DEF NoneOpen
<1>3. client[k] = "none" => served[k] = "none"  BY DEF IInv, LinkInv, Sockets, Alone
<1> QED  BY <1>1, <1>2, <1>3 DEF Still, ReadyStates

\* When close() is alone for ever, each link is still some day.
LEMMA LinksSettle ==
  ASSUME NEW k \in Links
  PROVE  ServedSpec /\ <>[]Alone /\ <>[](closer = "closing" => shutting[TheClose] # 0)
           => <>[]Still(k)
<1> DEFINE I == IInv /\ NoneOpen
           Waits == closer = "closing" => shutting[TheClose] # 0
           L1 == client[k] = "closing" /\ served[k] = "open"
           L2 == client[k] = "closing" /\ served[k] = "closing"
           L3 == client[k] = "closing" /\ served[k] \in {"none", "closed"}
           L4 == client[k] = "closed" /\ served[k] = "open"
           L5 == client[k] = "closed" /\ served[k] = "closing"
           S == Still(k)
           Can == CanMove(k)
<1>1. I /\ Alone => S \/ L1 \/ L2 \/ L3 \/ L4 \/ L5  BY LinkPlaces
<1>2. I /\ Alone /\ Waits /\ (L1 \/ L2 \/ L3 \/ L4 \/ L5) => Can
  BY CloseWaits DEF CanMove
<1>3. Alone' => ~busied'  BY DEF Alone
<1>4. I /\ [Next]_vars /\ Alone /\ Alone' /\ S => S'  BY <1>3, LinkMoves
<1>5. I /\ [Next]_vars /\ Alone /\ Alone' => \/ (L1 <=> L1') /\ (L2 <=> L2') /\ (L3 <=> L3')
                                                /\ (L4 <=> L4') /\ (L5 <=> L5')
                                             \/ <<Link(k)>>_vars
  <2> SUFFICES ASSUME I, [Next]_vars, Alone, Alone'
               PROVE  \/ (L1 <=> L1') /\ (L2 <=> L2') /\ (L3 <=> L3') /\ (L4 <=> L4') /\ (L5 <=> L5')
                      \/ <<Link(k)>>_vars
    OBVIOUS
  <2>1. Places(k)' = Places(k) \/ Link(k)  BY <1>3, LinkMoves
  <2>2. vars' = vars => Places(k)' = Places(k)  BY DEF vars, linkVars, Places
  <2>3. Places(k)' = Places(k) => client'[k] = client[k] /\ served'[k] = served[k]  BY DEF Places
  <2> QED  BY <2>1, <2>2, <2>3
<1>6. I /\ [Next]_vars /\ Alone /\ Alone' /\ <<Link(k)>>_vars =>
        /\ L1 => L2'
        /\ L2 => L5' \/ L3'
        /\ L3 => S'
        /\ L4 => L5'
        /\ L5 => S'
  BY <1>3, LinkMoves
<1>7. ServedSpec => Spec /\ ([]<>~Can \/ []<><<Link(k)>>_vars)  BY DEF ServedSpec
<1> HIDE DEF I, Waits, L1, L2, L3, L4, L5, S, Can
<1>8. ServedSpec /\ <>[]Alone /\ <>[]Waits => <>[]S
  BY <1>1, <1>2, <1>4, <1>5, <1>6, <1>7, NoneOpenInvariance, PTL DEF Spec, I
<1> QED  BY <1>8 DEF Waits, S

\* When nothing is left to happen to the links, close() can go on.
LEMMA CloseCan ==
  ASSUME IInv, Alone
  PROVE  /\ closer = "closing" /\ shutting[TheClose] = 0 => CanClose
         /\ closer = "stopping" => CanClose
         /\ (\A k \in Links : Still(k)) => CanClose
<1>1. \A k \in Links : client[k] # "connecting"  BY NothingOpens
<1>2. ASSUME \A k \in Links : Still(k) PROVE shutting[TheClose] = 0
  <2>1. shutting[TheClose] \in 0..MaxLinks /\ MaxLinks \in Nat
    BY TransportAssumption DEF IInv, TypeOK, Waiters
  <2>2. shutting[TheClose] # 0 => shutting[TheClose] \in Links  BY <2>1 DEF Links
  <2>3. shutting[TheClose] # 0 => client[shutting[TheClose]] = "closing"
    BY DEF IInv, LinkInv, Sockets, Alone, Waiters
  <2> QED  BY <1>2, <2>2, <2>3 DEF Still
<1> QED  BY <1>1, <1>2 DEF CanClose, Still, Alone

\* close() returns, unless a call is under way when it begins or begins while
\* it is at work: it gives its own client socket up, and the links that are
\* left close from both ends.
THEOREM CloseDone == ServedSpec /\ AllAtOnce => CloseReturns
<1> DEFINE I == IInv
           C == closer = "closing"
           G == closer = "draining"
           T == closer = "stopping"
           D == closer = "done"
           Z == shutting[TheClose] = 0
           Q == \A k \in Links : Still(k)
           Waits == closer = "closing" => shutting[TheClose] # 0
<1>1. I /\ closer # "idle" => C \/ G \/ T \/ D  BY DEF IInv, TypeOK
<1>2. Alone <=> (C \/ G \/ T) /\ ~busied  BY DEF Alone
<1>3. I /\ [Next]_vars /\ Alone /\ (~busied)' =>
        /\ C => C' \/ G'
        /\ G => G' \/ T'
        /\ T => T' \/ D'
        /\ Z => Z'
  BY CloserMoves
<1>4. I /\ Alone => /\ C /\ Z => CanClose
                    /\ T => CanClose
                    /\ Q => CanClose
  BY CloseCan
<1>5. <<CloseGoesOn>>_vars => /\ C => G'
                              /\ G => T'
                              /\ T => D'
  BY DEF CloseGoesOn, Closing, CloseWss, WssCloses, CloseEnds
<1>6. Waits <=> ~(C /\ Z)  OBVIOUS
<1>6a. ~(C /\ G) /\ ~(C /\ T) /\ ~(C /\ D) /\ ~(G /\ T) /\ ~(G /\ D) /\ ~(T /\ D)  OBVIOUS
<1>7. ServedSpec /\ <>[]Alone /\ <>[]Waits => \A k \in Links : <>[]Still(k)
  BY LinksSettle
<1>8. ServedSpec /\ AllAtOnce /\ <>[]Alone /\ <>[]Waits => <>[]Q
  BY <1>7 DEF AllAtOnce
<1>9. ServedSpec => Spec /\ ([]<>~CanClose \/ []<><<CloseGoesOn>>_vars)  BY DEF ServedSpec
<1>10. CloseReturns <=> (closer # "idle" ~> D \/ busied)  BY DEF CloseReturns
<1> HIDE DEF I, C, G, T, D, Z, Q, Waits
<1> QED
  BY <1>1, <1>2, <1>3, <1>4, <1>5, <1>6, <1>6a, <1>8, <1>9, <1>10, Invariance, PTL DEF Spec, I
=============================================================================
